---- MODULE Spec2Model ----
(***************************************************************************)
(* A model of the CSV cleaning pipeline of Clean_CSV.                      *)
(*                                                                         *)
(* The repository holds two copies of the pipeline: src/backend/main.py    *)
(* (the copy served by the API, which also returns the encoding keymap)    *)
(* and src/cleaner.py (the command-line copy).  The variable impl says     *)
(* which copy an invocation runs.                                          *)
(*                                                                         *)
(* Numbers are held exactly, in fixed point: a numeric cell holds          *)
(* Scale times its value.  Raw numbers of a file are integers, a median    *)
(* is a multiple of 1/2 and a 5th/95th percentile of such values a         *)
(* multiple of 1/40, so every number the pipeline computes before          *)
(* log1p / standardization is an integer multiple of 1/Scale.  log1p and   *)
(* standardization are kept as symbolic terms over exact values.           *)
(*                                                                         *)
(* Text is a sequence of character codes (ASCII), so trimming,             *)
(* upper-casing, comparison and sorting are computed, not assumed.         *)
(***************************************************************************)
EXTENDS Integers, Sequences, FiniteSets, TLC

VARIABLES
    impl,                 \* "backend" (src/backend/main.py) or "cli" (src/cleaner.py)
    cfg,                  \* arguments of clean_csv_data after file_path
    file_path,            \* clean_csv_data: the path of the input file
    file,                 \* the contents of the input file at the call
    pc,                   \* position of the invocation in clean_csv_data
    df,                   \* the table being cleaned
    dataframe,            \* process_outliers: its argument (the table before the loop)
    columns,              \* process_outliers: columns the loop has still to visit
    summary,              \* process_outliers: per-column outlier report
    all_outlier_indices,  \* process_outliers: row labels marked for removal (backend)
    numeric_columns,      \* clean_csv_data: numeric columns found after imputation
    encoding_keymap,      \* clean_csv_data: column -> (code -> category)
    result,               \* what the invocation handed back to its caller
    disk,                 \* the files: path -> contents
    other,                \* a second invocation of the same copy, running beside this one
    started,              \* the service: startup_event has run
    temp_dir,             \* the service: the files of TEMP_DIR, name -> age in seconds
    sleep_left,           \* the service: seconds periodic_cleanup has still to sleep
    pending_uploads,      \* the service: uploads waiting at "await file.read()"
    background_tasks,     \* the service: sweeps scheduled by clean_csv, not yet run
    response              \* the service: the answer to the last request

\* the variables of an invocation of the pipeline
pipeline == <<impl, cfg, file_path, file, pc, df, dataframe, columns, summary,
              all_outlier_indices, numeric_columns, encoding_keymap, result,
              disk, other>>

\* the variables of the service around it
service == <<started, temp_dir, sleep_left, pending_uploads, background_tasks,
             response>>

vars == <<pipeline, service>>

----------------------------------------------------------------------------
(* Bounds of the model *)

\* most rows of a general input table
MaxRows == 3

\* most rows of an input of the outlier specifications
MaxOutlierRows == 5
MaxRemoveRows == 5

\* most rows of an input of the encoding specification
MaxEncodeRows == 3

\* most rows of an input of the date specification
MaxDateRows == 2

\* most rows of an input of the degradation specification
MaxDegradeRows == 3

\* most rows of an input of the imputation specification
MaxImputeRows == 4

\* most rows of an input of the skipping specification
MaxSkipRows == 4

\* most rows of an input of the concurrency specification
MaxConcurrentRows == 2

\* most rows of an input of the frame specification
MaxFrameRows == 4

\* most rows of an input of the path specification
MaxPathRows == 2

\* most uploads of the service waiting to be stored at once
MaxUploads == 1

\* most sweeps scheduled by clean requests and not yet run
MaxBackground == 1

\* fixed-point scale of numeric cells: a median halves, a 5th/95th
\* percentile of up to 21 values divides by 20
Scale == 2 * 20

----------------------------------------------------------------------------
(* Sequences *)

Range(s) == {s[i] : i \in DOMAIN s}

RECURSIVE SumSeq(_)
SumSeq(s) == IF s = <<>> THEN 0 ELSE Head(s) + SumSeq(Tail(s))

\* the subsequence of s at the positions where the boolean mask keep is
\* TRUE, in order (boolean indexing, s[keep])
RECURSIVE SelectPos(_, _, _)
SelectPos(s, keep, i) ==
    IF i > Len(s) THEN <<>>
    ELSE (IF keep[i] THEN <<s[i]>> ELSE <<>>) \o SelectPos(s, keep, i + 1)

----------------------------------------------------------------------------
(* Text: sequences of character codes *)

WhiteSpace == {9, 10, 11, 12, 13, 32}

\* str.upper on ASCII
UpperChar(c) == IF c \in 97..122 THEN c - 32 ELSE c
Upper(s) == [i \in DOMAIN s |-> UpperChar(s[i])]

\* str.strip: drop leading and trailing white space
RECURSIVE LStrip(_)
LStrip(s) == IF s # <<>> /\ Head(s) \in WhiteSpace THEN LStrip(Tail(s)) ELSE s

RECURSIVE RStrip(_)
RStrip(s) ==
    IF s # <<>> /\ s[Len(s)] \in WhiteSpace
    THEN RStrip(SubSeq(s, 1, Len(s) - 1)) ELSE s

Strip(s) == RStrip(LStrip(s))

\* Python's order on str: lexicographic by code point
RECURSIVE StrLess(_, _)
StrLess(a, b) ==
    IF b = <<>> THEN FALSE
    ELSE IF a = <<>> THEN TRUE
    ELSE IF Head(a) # Head(b) THEN Head(a) < Head(b)
    ELSE StrLess(Tail(a), Tail(b))

\* the elements of a finite set of strings as an ascending sequence
RECURSIVE SortedStrings(_)
SortedStrings(S) ==
    IF S = {} THEN <<>>
    ELSE LET m == CHOOSE x \in S : \A y \in S \ {x} : StrLess(x, y)
         IN <<m>> \o SortedStrings(S \ {m})

----------------------------------------------------------------------------
(* Cells *)

Num(v) == <<"num", v>>
NaN    == <<"nan", 0>>
Str(s) == <<"str", s>>
Log1p(c) == <<"log1p", c>>           \* ln(1 + value of cell c), symbolic
Code(i) == <<"code", i>>             \* an int8 category code

Bool(b) == <<"bool", b>>             \* a Python bool held in a column

IsNum(c) == c[1] = "num"
IsNa(c)  == c[1] = "nan"                \* pd.isna
IsStr(c) == c[1] = "str"
IsBool(c) == c[1] = "bool"

\* the characters of a few literals
s_True    == <<84, 114, 117, 101>>       \* "True"
s_False   == <<70, 97, 108, 115, 101>>   \* "False"
s_Unknown == <<85, 110, 107, 110, 111, 119, 110>>   \* "Unknown"
s_NA      == <<78, 65>>                  \* "NA"

\* str(x) of the value of a cell, as astype(str) writes it
AsStr(c) ==
    IF IsStr(c) THEN c[2]
    ELSE IF IsBool(c) THEN (IF c[2] THEN s_True ELSE s_False)
    ELSE <<110, 97, 110>>                \* "nan"

----------------------------------------------------------------------------
(* Tables: index labels, ordered column names, cells and dtype per column *)

NoTable == [index |-> <<>>, cols |-> <<>>, data |-> <<>>, dtype |-> <<>>]

NRows(t) == Len(t.index)

HasCol(t, c) == c \in Range(t.cols)

\* the numeric dtypes, select_dtypes(include=[np.number])
IsNumericDtype(d) == d \in {"float64", "int64", "int8"}

\* a variant that writes the cells to every column of the dtype of c
SetColOfDtype(t, c, cells, d) ==
    [t EXCEPT !.data = [n \in DOMAIN t.data |->
                          IF t.dtype[n] = t.dtype[c] THEN cells ELSE t.data[n]],
              !.dtype = [n \in DOMAIN t.dtype |-> IF n = c THEN d ELSE t.dtype[n]]]

\* t with the cells (and dtype) of column c replaced
SetCol(t, c, cells, d) ==
    [t EXCEPT !.data = [n \in DOMAIN t.data |-> IF n = c THEN cells ELSE t.data[n]],
              !.dtype = [n \in DOMAIN t.dtype |-> IF n = c THEN d ELSE t.dtype[n]]]

\* t without the columns of the set drop
DropCols(t, drop) ==
    LET keep == SelectSeq(t.cols, LAMBDA c : c \notin drop)
    IN [index |-> t.index,
        cols  |-> keep,
        data  |-> [n \in Range(keep) |-> t.data[n]],
        dtype |-> [n \in Range(keep) |-> t.dtype[n]]]

\* t with only the rows at the positions where the mask keep is TRUE;
\* labels kept
KeepRows(t, keep) ==
    [t EXCEPT !.index = SelectPos(t.index, keep, 1),
              !.data = [n \in DOMAIN t.data |-> SelectPos(t.data[n], keep, 1)]]

\* df.reset_index(drop=True)
ResetIndex(t) == [t EXCEPT !.index = [i \in 1..Len(t.index) |-> i - 1]]

----------------------------------------------------------------------------
(* pd.read_csv(file_path, skipinitialspace=True) *)

\* pandas' missing-value markers among the fields the model draws
NaValues == {<<>>, s_NA}

RECURSIVE SkipSpaces(_)
SkipSpaces(s) == IF s # <<>> /\ Head(s) = 32 THEN SkipSpaces(Tail(s)) ELSE s

IsDigits(s) == s # <<>> /\ \A i \in DOMAIN s : s[i] \in 48..57

RECURSIVE DigitsValue(_)
DigitsValue(s) ==
    IF s = <<>> THEN 0
    ELSE 10 * DigitsValue(SubSeq(s, 1, Len(s) - 1)) + (s[Len(s)] - 48)

\* an integer literal, with an optional minus sign (45)
IsNumber(s) == IF s # <<>> /\ Head(s) = 45 THEN IsDigits(Tail(s)) ELSE IsDigits(s)

NumberValue(s) == IF Head(s) = 45 THEN 0 - DigitsValue(Tail(s)) ELSE DigitsValue(s)

\* the fields read_csv takes for booleans
TrueFields  == {s_True, Upper(s_True), <<116, 114, 117, 101>>}
FalseFields == {s_False, Upper(s_False), <<102, 97, 108, 115, 101>>}

\* the column read_csv makes of the text fields of one column
ReadColumn(fields) ==
    LET f == [i \in DOMAIN fields |-> SkipSpaces(fields[i])]
        present == {f[i] : i \in DOMAIN f} \ NaValues
        cell(s, conv(_)) == IF s \in NaValues THEN NaN ELSE conv(s)
    IN IF \A s \in present : IsNumber(s)
       THEN [cells |-> [i \in DOMAIN f |-> cell(f[i], LAMBDA s : Num(Scale * NumberValue(s)))],
             dtype |-> "float64"]
       ELSE IF \A s \in present : s \in TrueFields \cup FalseFields
       THEN [cells |-> [i \in DOMAIN f |-> cell(f[i], LAMBDA s : Bool(s \in TrueFields))],
             dtype |-> IF \E i \in DOMAIN f : f[i] \in NaValues THEN "object" ELSE "bool"]
       ELSE [cells |-> [i \in DOMAIN f |-> cell(f[i], LAMBDA s : Str(s))],
             dtype |-> "object"]

\* the DataFrame read_csv makes of a file: rows labelled 0..n-1
ReadCsv(f) ==
    [index |-> [i \in 1..f.rows |-> i - 1],
     cols  |-> f.cols,
     data  |-> [n \in Range(f.cols) |-> ReadColumn(f.text[n]).cells],
     dtype |-> [n \in Range(f.cols) |-> ReadColumn(f.text[n]).dtype]]

----------------------------------------------------------------------------
(* Column names *)

\* col.lower() of the column names the model draws
LowerName(n) == IF n = "Age" THEN "age" ELSE IF n = "Score" THEN "score" ELSE n

\* the names clean_csv_data forces to numeric
NumericNames == {"age", "income", "salary", "price", "amount", "score"}

\* any(word in col.lower() for word in ['date', 'time', 'created', 'updated']),
\* on the column names the model draws
HasDateWord(n) == n \in {"signup_date", "updated_at"}

----------------------------------------------------------------------------
(* Statistics on a numeric column; missing cells are skipped *)

\* the non-missing values of a column, in row order
Values(cells) ==
    LET present == SelectSeq(cells, LAMBDA c : IsNum(c))
    IN [i \in DOMAIN present |-> present[i][2]]

\* Series.count()
Count(cells) == Len(SelectSeq(cells, LAMBDA c : ~IsNa(c)))

\* Series.quantile(pct/100), linear interpolation between order statistics
Quantile(cells, pct) ==
    LET v  == SortSeq(Values(cells), LAMBDA a, b : a < b)
        n  == Len(v)
        lo == (pct * (n - 1)) \div 100 + 1
        r  == (pct * (n - 1)) % 100
        hi == IF r = 0 THEN lo ELSE lo + 1
    IN IF n = 0 THEN NaN
       ELSE Num(v[lo] + (r * (v[hi] - v[lo])) \div 100)

\* Series.median()
Median(cells) == Quantile(cells, 50)

\* a < b on cells as pandas compares floats: False when either is NaN
CellLess(a, b) == IsNum(a) /\ IsNum(b) /\ a[2] < b[2]

\* Series.mode()[0] of an object column, or "Unknown" when it has no value:
\* the most frequent value, the smallest one on a tie
FillValue(cells) ==
    LET vals == {c \in Range(cells) : ~IsNa(c)}
        count(v) == Cardinality({i \in DOMAIN cells : cells[i] = v})
        best == {v \in vals : \A w \in vals : count(w) <= count(v)}
        least == CHOOSE v \in best : \A w \in best \ {v} : StrLess(AsStr(v), AsStr(w))
    IN IF vals = {} THEN Str(s_Unknown) ELSE least

\* Series.fillna(v)
FillNa(cells, v) == [i \in DOMAIN cells |-> IF IsNa(cells[i]) THEN v ELSE cells[i]]

----------------------------------------------------------------------------
(* is_outlier_zscore, is_outlier_iqr: masks by row position.  A threshold  *)
(* is a positive rational <<numerator, denominator>>.                      *)

\* fewest values for a z-score
ZScoreMinCount == 2

\* fewest values for quartiles
IqrMinCount == 4

\* |z| > threshold with z = (x - mean) / population std, compared exactly:
\* (n x - S)^2 d^2 > t^2 (n Q - S^2), S the sum and Q the sum of squares.
\* A constant column has std 0 and z = NaN, which is not > threshold.
is_outlier_zscore(data, threshold) ==
    LET v == Values(data)
        n == Len(v)
        S == SumSeq(v)
        Q == SumSeq([i \in DOMAIN v |-> v[i] * v[i]])
        dev(x) == n * x - S
    IN [i \in DOMAIN data |->
          /\ n >= ZScoreMinCount
          /\ IsNum(data[i])
          /\ threshold[2] * threshold[2] * dev(data[i][2]) * dev(data[i][2])
                > threshold[1] * threshold[1] * (n * Q - S * S)]

\* outside [Q1 - m IQR, Q3 + m IQR], with m = multiplier[1] / multiplier[2]
is_outlier_iqr(data, multiplier) ==
    LET q1  == Quantile(data, 25)[2]
        q3  == Quantile(data, 75)[2]
        iqr == q3 - q1
        lower_fence == multiplier[2] * q1 - multiplier[1] * iqr
        upper_fence == multiplier[2] * q3 + multiplier[1] * iqr
    IN [i \in DOMAIN data |->
          /\ Count(data) >= IqrMinCount
          /\ IsNum(data[i])
          /\ \/ multiplier[2] * data[i][2] < lower_fence
             \/ multiplier[2] * data[i][2] > upper_fence]

----------------------------------------------------------------------------
(* process_outliers: the work on one column *)

\* fewest non-missing values of a column process_outliers looks at
MinValidCount == 4

\* the percentiles 'cap' clips to
CapLowerPct == 5
CapUpperPct == 95

Strategies == {"cap", "remove", "transform"}

CountTrue(mask) == Cardinality({i \in DOMAIN mask : mask[i]})

\* a variant that keeps only the rows both tests flag
CombineMasksAnd(z_outliers, iqr_outliers) ==
    [i \in DOMAIN z_outliers |-> z_outliers[i] /\ iqr_outliers[i]]

\* outliers = z_outliers | iqr_outliers
CombineMasks(z_outliers, iqr_outliers) ==
    [i \in DOMAIN z_outliers |-> z_outliers[i] \/ iqr_outliers[i]]

\* a variant that clips every cell of the column, flagged or not
CapColumnAll(cells, outliers) ==
    LET lower_bound == Quantile(cells, CapLowerPct)
        upper_bound == Quantile(cells, CapUpperPct)
    IN [i \in DOMAIN cells |->
          IF CellLess(cells[i], lower_bound) THEN lower_bound
          ELSE IF CellLess(upper_bound, cells[i]) THEN upper_bound
          ELSE cells[i]]

\* strategy 'cap': both bounds are taken from the column as it stands, then
\* outliers below the lower bound are set to it, then outliers above the
\* upper bound are set to it
CapColumn(cells, outliers) ==
    LET lower_bound == Quantile(cells, CapLowerPct)
        upper_bound == Quantile(cells, CapUpperPct)
        low == [i \in DOMAIN cells |->
                  IF outliers[i] /\ CellLess(cells[i], lower_bound)
                  THEN lower_bound ELSE cells[i]]
    IN [i \in DOMAIN cells |->
          IF outliers[i] /\ CellLess(upper_bound, low[i])
          THEN upper_bound ELSE low[i]]

\* a variant that also transforms a column holding zeros
TransformColumnNonNegative(cells) ==
    IF \A i \in DOMAIN cells : IsNum(cells[i]) /\ cells[i][2] >= 0
    THEN [i \in DOMAIN cells |-> Log1p(cells[i])]
    ELSE cells

\* strategy 'transform': np.log1p of the whole column if (df[column] > 0).all()
TransformColumn(cells) ==
    IF \A i \in DOMAIN cells : CellLess(Num(0), cells[i])
    THEN [i \in DOMAIN cells |-> Log1p(cells[i])]
    ELSE cells

\* the report process_outliers stores for a column
ColumnSummary(t, z_outliers, iqr_outliers, outliers) ==
    [total_outliers  |-> CountTrue(outliers),
     z_score_count   |-> CountTrue(z_outliers),
     iqr_count       |-> CountTrue(iqr_outliers),
     outlier_indices |-> SelectPos(t.index, outliers, 1)]

\* a variant without the test for too few values
ExaminedAlways(t, column) == HasCol(t, column)

\* whether the loop body passes its two `continue`s for this column
Examined(t, column) ==
    HasCol(t, column) /\ Count(t.data[column]) >= MinValidCount

----------------------------------------------------------------------------
(* clean_csv_data, stage by stage *)

\* pd.read_csv
ReadFile ==
    /\ pc = "start"
    /\ UNCHANGED <<disk, other, file_path, service>>
    /\ df' = ReadCsv(disk[file_path])
    /\ pc' = "drop_empty"
    /\ UNCHANGED <<impl, cfg, file, dataframe, columns, summary,
                   all_outlier_indices, numeric_columns, encoding_keymap, result>>

\* the columns whose every cell is missing
EmptyCols(t) == {c \in Range(t.cols) : \A i \in DOMAIN t.data[c] : IsNa(t.data[c][i])}

\* "Remove completely empty columns"
DropEmptyColumns ==
    /\ pc = "drop_empty"
    /\ UNCHANGED <<disk, other, file_path, service>>
    /\ df' = IF EmptyCols(df) # {} THEN DropCols(df, EmptyCols(df)) ELSE df
    /\ pc' = "coerce"
    /\ UNCHANGED <<impl, cfg, file, dataframe, columns, summary,
                   all_outlier_indices, numeric_columns, encoding_keymap, result>>

\* a variant that leaves text that is no number in place (errors='ignore')
ToNumericIgnore(c) ==
    IF IsNum(c) THEN c
    ELSE IF IsStr(c) /\ IsNumber(Strip(c[2])) THEN Num(Scale * NumberValue(Strip(c[2])))
    ELSE c

\* pd.to_numeric(errors='coerce') of one cell: text that is no number
\* becomes missing
ToNumeric(c) ==
    IF IsNum(c) THEN c
    ELSE IF IsStr(c) /\ IsNumber(Strip(c[2])) THEN Num(Scale * NumberValue(Strip(c[2])))
    ELSE NaN

\* the table with every allowlisted column forced to numeric
Coerced(t) ==
    [t EXCEPT
       !.data = [n \in DOMAIN t.data |->
                   IF LowerName(n) \in NumericNames
                   THEN [i \in DOMAIN t.data[n] |-> ToNumeric(t.data[n][i])]
                   ELSE t.data[n]],
       !.dtype = [n \in DOMAIN t.dtype |->
                   IF LowerName(n) \in NumericNames THEN "float64" ELSE t.dtype[n]]]

\* "Convert obvious numeric columns"
CoerceNumeric ==
    /\ pc = "coerce"
    /\ UNCHANGED <<disk, other, file_path, service>>
    /\ df' = Coerced(df)
    /\ pc' = "impute"
    /\ UNCHANGED <<impl, cfg, file, dataframe, columns, summary,
                   all_outlier_indices, numeric_columns, encoding_keymap, result>>

AnyMissing(t) == \E c \in Range(t.cols) : \E i \in DOMAIN t.data[c] : IsNa(t.data[c][i])

\* a variant that fills numeric columns with the mean
ImputedColumnMean(cells, dtype) ==
    IF dtype = "object" THEN FillNa(cells, FillValue(cells))
    ELSE FillNa(cells, IF Values(cells) = <<>> THEN NaN
                       ELSE Num(SumSeq(Values(cells)) \div Len(Values(cells))))

\* the imputed cells of one column: mode for object columns, median otherwise
ImputedColumn(cells, dtype) ==
    IF dtype = "object" THEN FillNa(cells, FillValue(cells))
    ELSE FillNa(cells, Median(cells))

\* the table with every column that has missing cells imputed
ImputedTable(t) ==
    IF AnyMissing(t)
    THEN [t EXCEPT !.data = [n \in DOMAIN t.data |->
                                ImputedColumn(t.data[n], t.dtype[n])]]
    ELSE t

\* "Handle missing values"
Impute ==
    /\ pc = "impute"
    /\ UNCHANGED <<disk, other, file_path, service>>
    /\ df' = ImputedTable(df)
    /\ pc' = "outliers"
    /\ UNCHANGED <<impl, cfg, file, dataframe, columns, summary,
                   all_outlier_indices, numeric_columns, encoding_keymap, result>>

\* df.select_dtypes(include=[np.number]).columns.tolist()
NumericColumns(t) == SelectSeq(t.cols, LAMBDA c : IsNumericDtype(t.dtype[c]))

\* "Handle outliers": find the numeric columns and call process_outliers
BeginOutliers ==
    /\ pc = "outliers"
    /\ UNCHANGED <<disk, other, file_path, service>>
    /\ numeric_columns' = NumericColumns(df)
    /\ IF NumericColumns(df) # <<>>
       THEN /\ dataframe' = df
            /\ columns' = NumericColumns(df)
            /\ summary' = <<>>
            /\ all_outlier_indices' = {}
            /\ pc' = "process_outliers"
       ELSE /\ pc' = "standardize"
            /\ UNCHANGED <<dataframe, columns, summary, all_outlier_indices>>
    /\ UNCHANGED <<impl, cfg, file, df, encoding_keymap, result>>

\* one iteration of the loop of process_outliers
ProcessColumn ==
    /\ pc = "process_outliers"
    /\ UNCHANGED <<disk, other, file_path, service>>
    /\ columns # <<>>
    /\ LET column == Head(columns)
           z_outliers   == is_outlier_zscore(df.data[column], cfg.z_score_threshold)
           iqr_outliers == is_outlier_iqr(df.data[column], cfg.iqr_multiplier)
           outliers     == CombineMasks(z_outliers, iqr_outliers)
           found        == CountTrue(outliers) > 0
           entry        == ColumnSummary(df, z_outliers, iqr_outliers, outliers)
       IN IF ~Examined(df, column)
          THEN UNCHANGED <<df, summary, all_outlier_indices>>
          ELSE /\ summary' = [n \in DOMAIN summary \cup {column} |->
                                IF n = column THEN entry ELSE summary[n]]
               /\ all_outlier_indices' =
                    IF found /\ cfg.outlier_strategy = "remove" /\ impl = "backend"
                    THEN all_outlier_indices \cup Range(entry.outlier_indices)
                    ELSE all_outlier_indices
               /\ df' =
                    IF ~found THEN df
                    ELSE IF cfg.outlier_strategy = "remove"
                    THEN (IF impl = "cli"
                          THEN KeepRows(df, [i \in DOMAIN outliers |-> ~outliers[i]])
                          ELSE df)
                    ELSE IF cfg.outlier_strategy = "cap"
                    THEN SetCol(df, column, CapColumn(df.data[column], outliers),
                                df.dtype[column])
                    ELSE IF cfg.outlier_strategy = "transform"
                    THEN SetCol(df, column, TransformColumn(df.data[column]),
                                df.dtype[column])
                    ELSE df
    /\ columns' = Tail(columns)
    /\ UNCHANGED <<impl, cfg, file, pc, dataframe, numeric_columns,
                   encoding_keymap, result>>

\* df.drop(index=list(all_outlier_indices)).reset_index(drop=True)
RemoveRows(t, labels) ==
    ResetIndex(KeepRows(t, [i \in DOMAIN t.index |-> t.index[i] \notin labels]))

\* the end of process_outliers: the backend removes the marked rows at once
FinishOutliers ==
    /\ pc = "process_outliers"
    /\ UNCHANGED <<disk, other, file_path, service>>
    /\ columns = <<>>
    /\ IF impl = "backend" /\ cfg.outlier_strategy = "remove" /\ all_outlier_indices # {}
       THEN /\ df' = RemoveRows(df, all_outlier_indices)
            /\ summary' =
                 [n \in DOMAIN summary \cup {"removal_summary"} |->
                    IF n = "removal_summary"
                    THEN [rows_before |-> NRows(df),
                          rows_after  |-> NRows(RemoveRows(df, all_outlier_indices)),
                          rows_removed |-> NRows(df) - NRows(RemoveRows(df, all_outlier_indices)),
                          unique_outlier_rows |-> Cardinality(all_outlier_indices)]
                    ELSE summary[n]]
       ELSE UNCHANGED <<df, summary>>
    /\ pc' = "standardize"
    /\ UNCHANGED <<impl, cfg, file, dataframe, columns, all_outlier_indices,
                   numeric_columns, encoding_keymap, result>>

----------------------------------------------------------------------------
(* Standardization *)

\* (x - mean) / std of x within its column, symbolic; StandardScaler
\* ignores missing cells when fitting and leaves them missing
Scaled(c, cells) == IF IsNa(c) THEN NaN ELSE <<"scaled", <<c, cells>>>>

\* a variant that scales the values of the table process_outliers was given
StandardizedTableOfArgument(t, cols) ==
    [t EXCEPT !.data = [n \in DOMAIN t.data |->
                          IF n \in Range(cols)
                          THEN [i \in DOMAIN dataframe.data[n] |->
                                  Scaled(dataframe.data[n][i], dataframe.data[n])]
                          ELSE t.data[n]]]

\* scaler.fit_transform(df[numeric_columns]) written back, column by column
StandardizedTable(t, cols) ==
    [t EXCEPT !.data = [n \in DOMAIN t.data |->
                          IF n \in Range(cols)
                          THEN [i \in DOMAIN t.data[n] |-> Scaled(t.data[n][i], t.data[n])]
                          ELSE t.data[n]]]

\* a variant that standardizes whatever the caller chose
ShouldStandardizeAlways(cols, c) == cols # <<>>

\* `if numeric_columns and standardize`
ShouldStandardize(cols, c) == cols # <<>> /\ c.standardize

\* "Normalize numeric data (optional)".  StandardScaler raises ValueError
\* on a table without rows, which ends the invocation.
Standardize ==
    /\ pc = "standardize"
    /\ UNCHANGED <<disk, other, file_path, service>>
    /\ IF ShouldStandardize(numeric_columns, cfg)
       THEN IF NRows(df) = 0
            THEN /\ pc' = "failed"
                 /\ result' = [status |-> "ValueError"]
                 /\ df' = df
            ELSE /\ pc' = "encode"
                 /\ df' = StandardizedTable(df, numeric_columns)
                 /\ result' = result
       ELSE /\ pc' = "encode"
            /\ UNCHANGED <<df, result>>
    /\ UNCHANGED <<impl, cfg, file, dataframe, columns, summary,
                   all_outlier_indices, numeric_columns, encoding_keymap>>

----------------------------------------------------------------------------
(* parse_datetime_column *)

NaT == <<"nat", 0>>
Date(y, m, d) == <<"date", <<y, m, d>>>>

\* the pieces of s between occurrences of the character sep
RECURSIVE Split(_, _)
Split(s, sep) ==
    IF \A i \in DOMAIN s : s[i] # sep THEN <<s>>
    ELSE LET k == CHOOSE i \in DOMAIN s : s[i] = sep /\ \A j \in 1..(i - 1) : s[j] # sep
         IN <<SubSeq(s, 1, k - 1)>> \o Split(SubSeq(s, k + 1, Len(s)), sep)

IsLeap(y) == (y % 4 = 0 /\ y % 100 # 0) \/ y % 400 = 0

DaysIn(y, m) ==
    IF m = 2 THEN (IF IsLeap(y) THEN 29 ELSE 28)
    ELSE IF m \in {4, 6, 9, 11} THEN 30 ELSE 31

\* the date of year, month and day fields, NaT unless %Y is four digits,
\* %m one or two digits in 1..12 and %d one or two digits naming a day of
\* that month
FieldsDate(yy, mm, dd) ==
    IF /\ IsDigits(yy) /\ Len(yy) = 4
       /\ IsDigits(mm) /\ Len(mm) <= 2 /\ DigitsValue(mm) \in 1..12
       /\ IsDigits(dd) /\ Len(dd) <= 2
       /\ DigitsValue(dd) \in 1..DaysIn(DigitsValue(yy), DigitsValue(mm))
    THEN Date(DigitsValue(yy), DigitsValue(mm), DigitsValue(dd))
    ELSE NaT

\* pd.to_datetime(date_str, format=fmt, errors='raise') for a format
\* <<separator, field order>>; NaT stands for the exception
ParseWithFormat(s, fmt) ==
    LET f == Split(s, fmt[1])
    IN IF Len(f) # 3 THEN NaT
       ELSE IF fmt[2] = "Ymd" THEN FieldsDate(f[1], f[2], f[3])
       ELSE IF fmt[2] = "mdY" THEN FieldsDate(f[3], f[1], f[2])
       ELSE FieldsDate(f[3], f[2], f[1])

\* a variant that tries the day-first slash format before the month-first
formats_day_first == << <<45, "Ymd">>, <<47, "Ymd">>, <<47, "dmY">>,
                        <<47, "mdY">>, <<45, "dmY">>, <<45, "mdY">> >>

\* '%Y-%m-%d', '%Y/%m/%d', '%m/%d/%Y', '%d/%m/%Y', '%d-%m-%Y', '%m-%d-%Y'
formats == << <<45, "Ymd">>, <<47, "Ymd">>, <<47, "mdY">>,
              <<47, "dmY">>, <<45, "dmY">>, <<45, "mdY">> >>

\* pd.to_datetime(date_str, dayfirst=...) without a format, on the strings
\* the model draws: a dotted numeric date is read in the preferred order,
\* and in the other order when the preferred one names no date
AutoDetect(s, dayfirst) ==
    LET f == Split(s, 46)
        dmy == IF Len(f) = 3 THEN FieldsDate(f[3], f[2], f[1]) ELSE NaT
        mdy == IF Len(f) = 3 THEN FieldsDate(f[3], f[1], f[2]) ELSE NaT
        ymd == IF Len(f) = 3 THEN FieldsDate(f[1], f[2], f[3]) ELSE NaT
    IN IF ymd # NaT THEN ymd
       ELSE IF dayfirst THEN (IF dmy # NaT THEN dmy ELSE mdy)
       ELSE (IF mdy # NaT THEN mdy ELSE dmy)

\* the first format, in order from position k, that parses s
RECURSIVE FirstFormat(_, _)
FirstFormat(s, k) ==
    IF k > Len(formats) THEN NaT
    ELSE IF ParseWithFormat(s, formats[k]) # NaT THEN ParseWithFormat(s, formats[k])
    ELSE FirstFormat(s, k + 1)

try_parse_date(c) ==
    IF IsNa(c) THEN NaT
    ELSE IF FirstFormat(AsStr(c), 1) # NaT THEN FirstFormat(AsStr(c), 1)
    ELSE IF AutoDetect(AsStr(c), TRUE) # NaT THEN AutoDetect(AsStr(c), TRUE)
    ELSE AutoDetect(AsStr(c), FALSE)

parse_datetime_column(series) == [i \in DOMAIN series |-> try_parse_date(series[i])]

----------------------------------------------------------------------------
(* Categorical encoding *)

s_T   == <<84>>
s_F   == <<70>>
s_YES == <<89, 69, 83>>
s_NO  == <<78, 79>>
s_Y   == <<89>>
s_N   == <<78>>
s_1   == <<49>>
s_0   == <<48>>

\* a variant whose table lacks the one-letter and one-digit synonyms
boolean_mapping_words(s) ==
    IF s \in {Upper(s_True), s_YES} THEN s_True
    ELSE IF s \in {Upper(s_False), s_NO} THEN s_False
    ELSE s

\* Series.replace(boolean_mapping): a whole value that is a key is replaced
boolean_mapping(s) ==
    IF s \in {Upper(s_True), s_T, s_YES, s_Y, s_1} THEN s_True
    ELSE IF s \in {Upper(s_False), s_F, s_NO, s_N, s_0} THEN s_False
    ELSE s

\* a variant that replaces the boolean synonyms before upper-casing
NormalizeValueMapFirst(c) == Upper(boolean_mapping(Strip(AsStr(c))))

\* backend: astype(str).str.strip(), str.upper(), replace(boolean_mapping)
NormalizeValue(c) == boolean_mapping(Upper(Strip(AsStr(c))))

\* cli: astype(str).str.strip()
StripValue(c) == Strip(AsStr(c))

\* the distinct values in order of first appearance
RECURSIVE FirstAppearances(_, _)
FirstAppearances(values, seen) ==
    IF values = <<>> THEN <<>>
    ELSE IF Head(values) \in seen THEN FirstAppearances(Tail(values), seen)
    ELSE <<Head(values)>> \o FirstAppearances(Tail(values), seen \cup {Head(values)})

\* a variant that numbers the categories as they first appear
CategoriesByAppearance(values) == FirstAppearances(values, {})

\* pd.Categorical(values).categories: the distinct values, sorted
Categories(values) == SortedStrings(Range(values))

\* a variant that codes each value by its first appearance in the column
\* (pd.factorize), whatever the order of the categories
CodesByAppearance(values, categories) ==
    [i \in DOMAIN values |->
       Code((CHOOSE k \in DOMAIN FirstAppearances(values, {}) :
                FirstAppearances(values, {})[k] = values[i]) - 1)]

\* pd.Categorical(values).codes: the position of each value among the
\* categories, from 0
Codes(values, categories) ==
    [i \in DOMAIN values |->
       Code((CHOOSE k \in DOMAIN categories : categories[k] = values[i]) - 1)]

\* {code: category for code, category in enumerate(categories)}
Keymap(categories) == [code \in 0..(Len(categories) - 1) |-> categories[code + 1]]

\* the codes and the keymap the backend makes of one column
EncodeColumn(cells) ==
    LET values == [i \in DOMAIN cells |-> NormalizeValue(cells[i])]
    IN [codes  |-> Codes(values, Categories(values)),
        keymap |-> Keymap(Categories(values))]

\* the codes the cli makes of one column
EncodeColumnCli(cells) ==
    LET values == [i \in DOMAIN cells |-> StripValue(cells[i])]
    IN Codes(values, Categories(values))

\* select_dtypes(include=['object', 'bool']) in the backend, ['object'] in
\* the cli.  (The backend's scan for boolean-like values only looks at
\* object columns, which the list already holds.)
CategoricalColumns(t, im) ==
    SelectSeq(t.cols, LAMBDA c : t.dtype[c] = "object" \/ (im = "backend" /\ t.dtype[c] = "bool"))

DateColumns(t, im) == SelectSeq(CategoricalColumns(t, im), HasDateWord)

RemainingCategorical(t, im) ==
    SelectSeq(CategoricalColumns(t, im), LAMBDA c : ~HasDateWord(c))

\* the table after date parsing and encoding
EncodedTable(t, im) ==
    LET dates == Range(DateColumns(t, im))
        cats  == Range(RemainingCategorical(t, im))
    IN [t EXCEPT
          !.data = [n \in DOMAIN t.data |->
                      IF n \in dates THEN parse_datetime_column(t.data[n])
                      ELSE IF n \in cats
                      THEN (IF im = "backend" THEN EncodeColumn(t.data[n]).codes
                            ELSE EncodeColumnCli(t.data[n]))
                      ELSE t.data[n]],
          !.dtype = [n \in DOMAIN t.dtype |->
                      IF n \in dates THEN "datetime64"
                      ELSE IF n \in cats THEN "int8"
                      ELSE t.dtype[n]]]

\* "Handle categorical encoding": parse the date columns, encode the rest
Encode ==
    /\ pc = "encode"
    /\ UNCHANGED <<disk, other, file_path, service>>
    /\ df' = EncodedTable(df, impl)
    /\ encoding_keymap' =
         IF impl = "backend"
         THEN [n \in Range(RemainingCategorical(df, impl)) |-> EncodeColumn(df.data[n]).keymap]
         ELSE encoding_keymap
    /\ pc' = "return"
    /\ UNCHANGED <<impl, cfg, file, dataframe, columns, summary,
                   all_outlier_indices, numeric_columns, result>>

\* the summary the endpoint clean_csv of the backend hands to its caller
\* (the cli hands back the table alone)
ApiSummary(im, f, t) ==
    IF im = "backend"
    THEN [success           |-> TRUE,
          original_shape    |-> <<f.rows, Len(f.cols)>>,
          cleaned_shape     |-> <<NRows(t), Len(t.cols)>>,
          rows_removed      |-> f.rows - NRows(t),
          columns_processed |-> t.cols]
    ELSE <<>>

\* the file the cleaned table is saved to: the cli always writes
\* cleaned_data.csv in the working directory, the backend's endpoint writes
\* temp_files/<file_id>_cleaned.csv
OutputPath(im, file_id) ==
    IF im = "cli" THEN <<"cleaned_data.csv">>
    ELSE <<"temp_files", file_id, "_cleaned.csv">>

\* the file the endpoint clean_csv of the backend cleans for a file_id; the
\* cli is given its path by its caller, here <file_id>.csv
InputPath(im, file_id) ==
    IF im = "cli" THEN <<file_id, ".csv">>
    ELSE <<"temp_files", file_id, ".csv">>

\* the decimal digits of a natural number
RECURSIVE Digits(_)
Digits(n) == IF n < 10 THEN <<48 + n>> ELSE Digits(n \div 10) \o <<48 + (n % 10)>>

\* the digits of n, with a leading zero below 10
TwoDigits(n) == IF n < 10 THEN <<48>> \o Digits(n) ELSE Digits(n)

\* the text to_csv writes for a cell: nothing for a missing cell, the
\* digits of a category code, the ISO form of a date; the decimal text of a
\* number is kept as a term of the cell
CsvField(c) ==
    IF IsStr(c) THEN c[2]
    ELSE IF IsNa(c) \/ c = NaT THEN <<>>
    ELSE IF IsBool(c) THEN (IF c[2] THEN s_True ELSE s_False)
    ELSE IF c[1] = "code" THEN (IF c[2] < 0 THEN <<45>> \o Digits(0 - c[2]) ELSE Digits(c[2]))
    ELSE IF c[1] = "date"
         THEN Digits(c[2][1]) \o <<45>> \o TwoDigits(c[2][2]) \o <<45>> \o TwoDigits(c[2][3])
    ELSE <<"repr", c>>

\* df.to_csv(path, index=False): the columns and the text of their cells,
\* no row labels
ToCsv(t) ==
    [cols |-> t.cols, rows |-> NRows(t),
     text |-> [n \in Range(t.cols) |->
                 [i \in DOMAIN t.data[n] |-> CsvField(t.data[n][i])]]]

\* the files d after contents is written to path
Written(d, path, contents) ==
    [q \in DOMAIN d \cup {path} |-> IF q = path THEN contents ELSE d[q]]

\* the file_id of this invocation's upload
FileId == "a"

\* save the cleaned table, then return df, encoding_keymap (the cli returns
\* df alone; the backend's endpoint saves and adds its summary)
Return ==
    /\ pc = "return"
    /\ disk' = Written(disk, OutputPath(impl, FileId), ToCsv(df))
    /\ UNCHANGED <<other, file_path, service>>
    /\ result' = [status |-> "returned", table |-> df, keymap |-> encoding_keymap,
                  summary |-> ApiSummary(impl, disk[file_path], df)]
    /\ pc' = "done"
    /\ UNCHANGED <<impl, cfg, file, df, dataframe, columns, summary,
                   all_outlier_indices, numeric_columns, encoding_keymap>>

Next ==
    \/ ReadFile
    \/ DropEmptyColumns
    \/ CoerceNumeric
    \/ Impute
    \/ BeginOutliers
    \/ ProcessColumn
    \/ FinishOutliers
    \/ Standardize
    \/ Encode
    \/ Return

----------------------------------------------------------------------------
(* A second invocation beside the first.  Its table is local to it, so its *)
(* cleaning is one step; what it shares with the first is the disk.        *)

\* no second invocation
NoOther == [pc |-> "absent"]

\* the table the stages make of the file f when outlier handling finds
\* nothing to change (as for any file of fewer than 4 rows)
CleanedQuietly(im, c, f) ==
    LET read    == ReadCsv(f)
        kept    == IF EmptyCols(read) # {} THEN DropCols(read, EmptyCols(read)) ELSE read
        imputed == ImputedTable(Coerced(kept))
        numeric == NumericColumns(imputed)
        scaled  == IF ShouldStandardize(numeric, c)
                   THEN StandardizedTable(imputed, numeric) ELSE imputed
    IN EncodedTable(scaled, im)

\* the second invocation cleans its own file
OtherClean ==
    /\ other.pc = "start"
    /\ other' = [other EXCEPT !.pc = "save",
                              !.table = CleanedQuietly(impl, other.cfg, other.file)]
    /\ UNCHANGED <<impl, cfg, file, pc, df, dataframe, columns, summary,
                   all_outlier_indices, numeric_columns, encoding_keymap, result,
                   disk, file_path, service>>

\* the second invocation saves its cleaned table
OtherSave ==
    /\ other.pc = "save"
    /\ disk' = Written(disk, OutputPath(impl, other.file_id), ToCsv(other.table))
    /\ other' = [other EXCEPT !.pc = "done"]
    /\ UNCHANGED service
    /\ UNCHANGED <<impl, cfg, file_path, file, pc, df, dataframe, columns, summary,
                   all_outlier_indices, numeric_columns, encoding_keymap, result>>

NextConcurrent ==
    \/ Next
    \/ OtherClean
    \/ OtherSave

----------------------------------------------------------------------------
(* The service around the pipeline: the temp directory and its sweeps.     *)
(* A file is kept with its age, current_time - os.path.getmtime(file_path),*)
(* in place of the clock and its modification time; time passes in steps   *)
(* of one sleep of the periodic task, and an age past the first step       *)
(* beyond expiry is kept there, since no code tells older files apart.     *)

\* "File expiration time in seconds (15 minutes)"
FILE_EXPIRATION_TIME == 15 * 60

\* "await asyncio.sleep(300)"
SleepSeconds == 300

\* the age beyond which files are not told apart
OldAge == FILE_EXPIRATION_TIME + SleepSeconds

\* the ages a file may have
Ages == {k * SleepSeconds : k \in 0..(OldAge \div SleepSeconds)}

\* the file_ids uuid4 hands out: one, handed out again once no file of
\* its last use is left
FileIds == {"a"}

\* the files the service keeps for a file_id
Suffixes == {".csv", "_cleaned.csv", "_results.json", "_keymap.csv"}

\* os.path.join(TEMP_DIR, f"{file_id}<suffix>")
Name(file_id, suffix) == <<file_id, suffix>>

\* a variant that takes a file of exactly the expiration time for expired
ExpiredAtLimit(file_age) == file_age >= FILE_EXPIRATION_TIME

\* "if file_age > FILE_EXPIRATION_TIME"
Expired(file_age) == file_age > FILE_EXPIRATION_TIME

\* the directory after cleanup_old_files: the expired files removed
cleanup_old_files(dir) ==
    [n \in {m \in DOMAIN dir : ~Expired(dir[m])} |-> dir[n]]

\* the directory after the files of the set names are written now
Stored(dir, names) ==
    [n \in DOMAIN dir \cup names |-> IF n \in names THEN 0 ELSE dir[n]]

\* the directory a step of time later
Older(dir) ==
    [n \in DOMAIN dir |-> IF dir[n] + SleepSeconds > OldAge THEN OldAge
                          ELSE dir[n] + SleepSeconds]

\* raise HTTPException(status_code=..., detail=...)
HTTPException(status_code, detail) == [status_code |-> status_code, detail |-> detail]

\* "except Exception as e: raise HTTPException(status_code=500,
\* detail=f"<prefix>{str(e)}")": HTTPException is an Exception, so one
\* raised inside the try block is caught here as well, and str(e) of an
\* HTTPException is "<status_code>: <detail>"
Caught(prefix, e) ==
    HTTPException(500, <<prefix, ToString(e.status_code)>> \o e.detail)

\* a successful answer
Ok(body) == [status_code |-> 200, detail |-> body]

\* no service beside an invocation of the pipeline
NoService ==
    /\ started = FALSE
    /\ temp_dir = <<>>
    /\ sleep_left = 0
    /\ pending_uploads = 0
    /\ background_tasks = 0
    /\ response = [endpoint |-> "none"]

\* startup_event: sweep the files of previous sessions, create the task
\* periodic_cleanup
Startup ==
    /\ ~started
    /\ started' = TRUE
    /\ temp_dir' = cleanup_old_files(temp_dir)
    /\ sleep_left' = 0
    /\ UNCHANGED <<pending_uploads, background_tasks, response, pipeline>>

\* a variant that sleeps without sweeping
PeriodicCleanupAsleep ==
    /\ started
    /\ sleep_left = 0
    /\ temp_dir' = temp_dir
    /\ sleep_left' = SleepSeconds
    /\ UNCHANGED <<started, pending_uploads, background_tasks, response, pipeline>>

\* periodic_cleanup, one turn of "while True": sweep, then sleep
PeriodicCleanup ==
    /\ started
    /\ sleep_left = 0
    /\ temp_dir' = cleanup_old_files(temp_dir)
    /\ sleep_left' = SleepSeconds
    /\ UNCHANGED <<started, pending_uploads, background_tasks, response, pipeline>>

\* time passes: every file grows older, the sleep of the task runs down
Tick ==
    /\ temp_dir' = Older(temp_dir)
    /\ sleep_left' = IF sleep_left > SleepSeconds THEN sleep_left - SleepSeconds ELSE 0
    /\ UNCHANGED <<started, pending_uploads, background_tasks, response, pipeline>>

\* manual_cleanup: POST /api/cleanup
ManualCleanup ==
    /\ started
    /\ temp_dir' = cleanup_old_files(temp_dir)
    /\ response' = [endpoint |-> "cleanup"] @@
                   Ok([remaining_files |-> Cardinality(DOMAIN cleanup_old_files(temp_dir))])
    /\ UNCHANGED <<started, sleep_left, pending_uploads, background_tasks, pipeline>>

\* upload_csv up to "await file.read()": sweep, then refuse a file whose
\* name does not end in .csv
UploadBegin ==
    /\ started
    /\ temp_dir' = cleanup_old_files(temp_dir)
    /\ \E is_csv \in BOOLEAN :
         IF is_csv
         THEN /\ pending_uploads < MaxUploads
              /\ pending_uploads' = pending_uploads + 1
              /\ response' = response
         ELSE /\ pending_uploads' = pending_uploads
              /\ response' = [endpoint |-> "upload"] @@
                             HTTPException(400, <<"Please upload a CSV file">>)
    /\ UNCHANGED <<started, sleep_left, background_tasks, pipeline>>

\* upload_csv from "await file.read()" on: refuse a file over 100MB, else
\* store it under a new file_id and read it for the preview; a file the
\* preview cannot read is removed again
UploadStore ==
    /\ pending_uploads > 0
    /\ pending_uploads' = pending_uploads - 1
    /\ \E outcome \in {"too_large", "stored", "unreadable"} :
         CASE outcome = "too_large" ->
                /\ temp_dir' = temp_dir
                /\ response' = [endpoint |-> "upload"] @@
                               HTTPException(400, <<"File size exceeds maximum limit of 100MB">>)
           [] outcome = "stored" ->
                \E file_id \in FileIds :
                   /\ \A suffix \in Suffixes : Name(file_id, suffix) \notin DOMAIN temp_dir
                   /\ temp_dir' = Stored(temp_dir, {Name(file_id, ".csv")})
                   /\ response' = [endpoint |-> "upload"] @@ Ok([file_id |-> file_id])
           [] outcome = "unreadable" ->
                /\ temp_dir' = temp_dir
                /\ response' = [endpoint |-> "upload"] @@
                               HTTPException(500, <<"Error processing file: ">>)
    /\ UNCHANGED <<started, sleep_left, background_tasks, pipeline>>

\* clean_csv: POST /api/clean.  Sweep, look for the upload, clean it, save
\* the cleaned table, the results and, when a column was encoded, the
\* keymap, and schedule a sweep for after the answer.
Clean(file_id) ==
    /\ started
    /\ LET swept == cleanup_old_files(temp_dir)
       IN IF Name(file_id, ".csv") \notin DOMAIN swept
          THEN /\ temp_dir' = swept
               /\ background_tasks' = background_tasks
               /\ response' = [endpoint |-> "clean"] @@
                              Caught("Error cleaning data: ",
                                     HTTPException(404, <<"File not found">>))
          ELSE \E outcome \in {"raised", "table", "table_and_keymap"} :
                 IF outcome = "raised"
                 THEN /\ temp_dir' = swept
                      /\ background_tasks' = background_tasks
                      /\ response' = [endpoint |-> "clean"] @@
                                     HTTPException(500, <<"Error cleaning data: ", "raised">>)
                 ELSE /\ background_tasks < MaxBackground
                      /\ background_tasks' = background_tasks + 1
                      /\ temp_dir' =
                            Stored(swept,
                                   {Name(file_id, "_cleaned.csv"), Name(file_id, "_results.json")}
                                   \cup IF outcome = "table_and_keymap"
                                        THEN {Name(file_id, "_keymap.csv")} ELSE {})
                      /\ response' = [endpoint |-> "clean"] @@
                                     Ok([download_id |-> <<file_id, "_cleaned">>])
    /\ UNCHANGED <<started, sleep_left, pending_uploads, pipeline>>

\* the sweep clean_csv scheduled, run after its answer
BackgroundCleanup ==
    /\ background_tasks > 0
    /\ background_tasks' = background_tasks - 1
    /\ temp_dir' = cleanup_old_files(temp_dir)
    /\ UNCHANGED <<started, sleep_left, pending_uploads, response, pipeline>>

\* the ids download_file is asked for: a file_id, or the download_id
\* "<file_id>_cleaned" clean_csv answered with
DownloadIds == {<<file_id, tail>> : file_id \in FileIds, tail \in {"", "_cleaned"}}

\* os.path.join(TEMP_DIR, f"{file_id}.csv") of download_file
DownloadName(download_id) ==
    Name(download_id[1], IF download_id[2] = "" THEN ".csv" ELSE "_cleaned.csv")

\* download_file: GET /api/download/{file_id}
Download(download_id) ==
    /\ started
    /\ response' = [endpoint |-> "download"] @@
                   IF DownloadName(download_id) \notin DOMAIN temp_dir
                   THEN Caught("Error downloading file: ",
                               HTTPException(404, <<"File not found">>))
                   ELSE Ok([path |-> DownloadName(download_id)])
    /\ UNCHANGED <<started, temp_dir, sleep_left, pending_uploads, background_tasks,
                   pipeline>>

NextService ==
    \/ Startup
    \/ PeriodicCleanup
    \/ Tick
    \/ ManualCleanup
    \/ UploadBegin
    \/ UploadStore
    \/ \E file_id \in FileIds : Clean(file_id)
    \/ BackgroundCleanup
    \/ \E download_id \in DownloadIds : Download(download_id)

----------------------------------------------------------------------------
(* Inputs *)

\* a file of n rows with the given columns, text[c] the fields of column c
File(cols, n, text) == [cols |-> cols, rows |-> n, text |-> text]

\* thresholds as <<numerator, denominator>>
DefaultZ   == <<3, 1>>
DefaultIqr == <<3, 2>>

Config(strategy, z, m, std) ==
    [outlier_strategy |-> strategy, z_score_threshold |-> z,
     iqr_multiplier |-> m, standardize |-> std]

\* the state at the call of clean_csv_data on the file f at path, with
\* the files d already on the disk, beside a second invocation o
StartAt(im, c, path, f, d, o) ==
    /\ impl = im
    /\ cfg = c
    /\ file_path = path
    /\ file = f
    /\ pc = "start"
    /\ df = NoTable
    /\ dataframe = NoTable
    /\ columns = <<>>
    /\ summary = <<>>
    /\ all_outlier_indices = {}
    /\ numeric_columns = <<>>
    /\ encoding_keymap = <<>>
    /\ result = [status |-> "none"]
    /\ disk = Written(d, path, f)
    /\ other = o
    /\ NoService

\* the state at the call of clean_csv_data on the upload FileId, beside a
\* second invocation o whose input file is on the disk as well
StartBeside(im, c, f, o) ==
    StartAt(im, c, InputPath(im, FileId), f,
            IF o.pc = "absent" THEN <<>> ELSE Written(<<>>, InputPath(im, o.file_id), o.file),
            o)

\* the state at the call of clean_csv_data, running alone
Start(im, c, f) == StartBeside(im, c, f, NoOther)

\* fields of the general inputs
AgeFields  == {<<>>, <<55>>, <<120>>}                          \* "", "7", "x"
CityFields == {<<>>, <<78, 89, 67>>}                           \* "", "NYC"

\* the general inputs: an allowlisted column and a text column
Files ==
    UNION {{File(<<"Age", "city">>, n, [c \in {"Age", "city"} |->
                    IF c = "Age" THEN a ELSE b]) :
              a \in [1..n -> AgeFields], b \in [1..n -> CityFields]} :
           n \in 1..MaxRows}

Configs ==
    {Config(s, DefaultZ, DefaultIqr, std) :
       s \in Strategies \cup {"clip"}, std \in BOOLEAN}

Init == \E im \in {"backend", "cli"}, c \in Configs, f \in Files : Start(im, c, f)

Spec == Init /\ [][Next]_vars

----------------------------------------------------------------------------
(* Inputs for outlier handling: one numeric column, every strategy *)

XFields == {<<48>>, <<49>>, <<49, 48>>}        \* "0", "1", "10"
YFields == {<<49>>, <<53, 48>>}                \* "1", "50"

LowZ   == <<1, 1>>
LowIqr == <<1, 4>>

OutlierFiles ==
    UNION {{File(<<"x">>, n, [c \in {"x"} |-> a]) : a \in [1..n -> XFields]} :
           n \in 3..MaxOutlierRows}

OutlierConfigs ==
    {Config(s, t[1], t[2], std) :
       s \in Strategies, t \in {<<DefaultZ, DefaultIqr>>, <<LowZ, LowIqr>>},
       std \in BOOLEAN}

InitOutliers ==
    \E im \in {"backend", "cli"}, c \in OutlierConfigs, f \in OutlierFiles : Start(im, c, f)

SpecOutliers == InitOutliers /\ [][Next]_vars

(* Inputs for row removal: two numeric columns, strategy 'remove' *)

RemoveFiles ==
    UNION {{File(<<"x", "y">>, n, [c \in {"x", "y"} |-> IF c = "x" THEN a ELSE b]) :
              a \in [1..n -> {<<48>>, <<49, 48>>}], b \in [1..n -> YFields]} :
           n \in 4..MaxRemoveRows}

RemoveConfigs ==
    {Config("remove", t[1], t[2], FALSE) :
       t \in {<<DefaultZ, DefaultIqr>>, <<LowZ, LowIqr>>}}

InitRemove ==
    \E im \in {"backend", "cli"}, c \in RemoveConfigs, f \in RemoveFiles : Start(im, c, f)

SpecRemove == InitRemove /\ [][Next]_vars

(* Inputs for encoding: a text column beside a constant numeric column *)

TextFields ==
    {<<>>,                         \* ""
     <<32, 108, 97, 32>>,          \* " la "
     <<76, 65>>,                   \* "LA"
     <<110, 121, 99>>,             \* "nyc"
     <<121, 101, 115>>,            \* "yes"
     <<78>>,                       \* "N"
     <<48>>,                       \* "0"
     <<84, 82, 85, 69>>}           \* "TRUE"

EncodeFiles ==
    UNION {{File(<<"x", "city">>, n, [c \in {"x", "city"} |->
                    IF c = "x" THEN [i \in 1..n |-> <<49>>] ELSE b]) :
              b \in [1..n -> TextFields]} :
           n \in 1..MaxEncodeRows}

InitEncode ==
    \E im \in {"backend", "cli"}, f \in EncodeFiles :
       Start(im, Config("cap", DefaultZ, DefaultIqr, FALSE), f)

SpecEncode == InitEncode /\ [][Next]_vars

(* Inputs for date parsing: a date column beside a constant numeric column *)

DateFields ==
    {<<>>,                                              \* ""
     <<50, 48, 50, 52, 45, 48, 49, 45, 48, 53>>,        \* "2024-01-05"
     <<50, 48, 50, 52, 47, 48, 49, 47, 48, 53>>,        \* "2024/01/05"
     <<48, 51, 47, 48, 52, 47, 50, 48, 50, 52>>,        \* "03/04/2024"
     <<49, 51, 47, 48, 52, 47, 50, 48, 50, 52>>,        \* "13/04/2024"
     <<48, 51, 45, 48, 52, 45, 50, 48, 50, 52>>,        \* "03-04-2024"
     <<48, 52, 45, 49, 51, 45, 50, 48, 50, 52>>,        \* "04-13-2024"
     <<49, 51, 46, 48, 52, 46, 50, 48, 50, 52>>,        \* "13.04.2024"
     <<48, 52, 46, 49, 51, 46, 50, 48, 50, 52>>,        \* "04.13.2024"
     <<51, 49, 47, 48, 50, 47, 50, 48, 50, 52>>,        \* "31/02/2024"
     <<115, 111, 111, 110>>}                            \* "soon"

DateFiles ==
    UNION {{File(<<"x", "signup_date">>, n, [c \in {"x", "signup_date"} |->
                    IF c = "x" THEN [i \in 1..n |-> <<49>>] ELSE b]) :
              b \in [1..n -> DateFields]} :
           n \in 1..MaxDateRows}

InitDates ==
    \E im \in {"backend", "cli"}, f \in DateFiles :
       Start(im, Config("cap", DefaultZ, DefaultIqr, FALSE), f)

SpecDates == InitDates /\ [][Next]_vars

(* Inputs for parse degradation: an allowlisted column beside a date column *)

DegradeAgeFields  == {<<>>, <<55>>, <<120>>}                   \* "", "7", "x"
DegradeDateFields ==
    {<<>>,                                              \* ""
     <<50, 48, 50, 52, 45, 48, 49, 45, 48, 53>>,        \* "2024-01-05"
     <<49, 51, 47, 49, 51, 47, 50, 48, 50, 52>>}        \* "13/13/2024"

DegradeFiles ==
    UNION {{File(<<"Age", "signup_date">>, n, [c \in {"Age", "signup_date"} |->
                    IF c = "Age" THEN a ELSE b]) :
              a \in [1..n -> DegradeAgeFields], b \in [1..n -> DegradeDateFields]} :
           n \in 1..MaxDegradeRows}

InitDegrade ==
    \E im \in {"backend", "cli"}, std \in BOOLEAN, f \in DegradeFiles :
       Start(im, Config("cap", DefaultZ, DefaultIqr, std), f)

SpecDegrade == InitDegrade /\ [][Next]_vars

(* Inputs for imputation: an allowlisted column with gaps *)

ScoreFields == {<<>>, <<49>>, <<52>>, <<49, 48>>, <<120>>}    \* "", "1", "4", "10", "x"

ImputeFiles ==
    UNION {{File(<<"Score">>, n, [c \in {"Score"} |-> a]) : a \in [1..n -> ScoreFields]} :
           n \in 1..MaxImputeRows}

InitImpute ==
    \E im \in {"backend", "cli"}, s \in Strategies, f \in ImputeFiles :
       Start(im, Config(s, DefaultZ, DefaultIqr, FALSE), f)

SpecImpute == InitImpute /\ [][Next]_vars

(* Inputs for skipped columns: a numeric column beside an allowlisted   *)
(* column that may hold no number at all                                *)

SkipFiles ==
    UNION {{File(<<"x", "Score">>, n, [c \in {"x", "Score"} |->
                    IF c = "x" THEN a ELSE b]) :
              a \in [1..n -> {<<48>>, <<49, 48>>}],           \* "0", "10"
              b \in [1..n -> {<<120>>, <<49>>}]} :            \* "x", "1"
           n \in 3..MaxSkipRows}

InitSkip ==
    \E im \in {"backend", "cli"}, s \in Strategies, f \in SkipFiles :
       Start(im, Config(s, LowZ, LowIqr, FALSE), f)

SpecSkip == InitSkip /\ [][Next]_vars

(* Inputs for two invocations side by side, each on its own file *)

ConcurrentFiles ==
    UNION {{File(<<"x">>, n, [c \in {"x"} |-> a]) :
              a \in [1..n -> {<<49>>, <<52>>}]} :                \* "1", "4"
           n \in 1..MaxConcurrentRows}

\* a second invocation about to start on the upload "b"
Beside(c, f) ==
    [pc |-> "start", cfg |-> c, file |-> f, file_id |-> "b", table |-> NoTable]

InitConcurrent ==
    \E im \in {"backend", "cli"}, f \in ConcurrentFiles :
      \E g \in ConcurrentFiles \ {f} :
       StartBeside(im, Config("cap", DefaultZ, DefaultIqr, FALSE), f,
                   Beside(Config("cap", DefaultZ, DefaultIqr, FALSE), g))

SpecConcurrent == InitConcurrent /\ [][NextConcurrent]_vars

(* Inputs for the files of an invocation: the input at a path of the      *)
(* caller's choice, after an earlier invocation or after none             *)

PathFiles ==
    UNION {{File(<<"x", "city">>, n, [c \in {"x", "city"} |-> IF c = "x" THEN a ELSE b]) :
              a \in [1..n -> {<<49>>, <<52>>}],                 \* "1", "4"
              b \in [1..n -> {<<>>, <<78, 89, 67>>, <<76, 65>>}]} : \* "", "NYC", "LA"
           n \in 1..MaxPathRows}

\* the paths a caller may give: the backend's endpoint builds the path from
\* the file_id, the caller of the cli names any file, the one the cli
\* writes included
InputPaths(im) ==
    IF im = "cli" THEN {InputPath(im, FileId), OutputPath(im, FileId)}
    ELSE {InputPath(im, FileId)}

\* the input file of an earlier invocation, for the upload "b"
EarlierFile ==
    File(<<"x", "city">>, 1, [c \in {"x", "city"} |->
                                IF c = "x" THEN <<<<52>>>> ELSE <<<<76, 65>>>>])

\* the file that earlier invocation left on the disk
LeftBy(im, c) == Written(<<>>, OutputPath(im, "b"), ToCsv(CleanedQuietly(im, c, EarlierFile)))

InitPaths ==
    \E im \in {"backend", "cli"}, std \in BOOLEAN, f \in PathFiles :
      \E path \in InputPaths(im) :
        \E d \in {<<>>, LeftBy(im, Config("cap", DefaultZ, DefaultIqr, std))} :
          StartAt(im, Config("cap", DefaultZ, DefaultIqr, std), path, f, d, NoOther)

SpecPaths == InitPaths /\ [][Next]_vars

(* Inputs for the service: the files previous sessions left in the temp  *)
(* directory, before startup                                             *)

\* no invocation of the pipeline beside the service
NoPipeline ==
    /\ impl = "backend"
    /\ cfg = Config("cap", DefaultZ, DefaultIqr, TRUE)
    /\ file_path = <<>>
    /\ file = File(<<>>, 0, <<>>)
    /\ pc = "absent"
    /\ df = NoTable
    /\ dataframe = NoTable
    /\ columns = <<>>
    /\ summary = <<>>
    /\ all_outlier_indices = {}
    /\ numeric_columns = <<>>
    /\ encoding_keymap = <<>>
    /\ result = [status |-> "none"]
    /\ disk = <<>>
    /\ other = NoOther

\* the directories previous sessions may have left: nothing, an upload, or
\* an upload and the cleaned table made of it later; young, 15 minutes
\* old, or older
PreviousSessions ==
    LET ages == {SleepSeconds, FILE_EXPIRATION_TIME, OldAge}
        dir(S, upload, cleaned) ==
            [n \in S |-> IF n = Name("a", ".csv") THEN upload ELSE cleaned]
    IN {<<>>}
       \cup {dir({Name("a", ".csv")}, u, u) : u \in ages}
       \cup UNION {{dir({Name("a", ".csv"), Name("a", "_cleaned.csv")}, u, c) :
                      c \in {k \in ages : k <= u}} : u \in ages}

InitService ==
    /\ NoPipeline
    /\ started = FALSE
    /\ temp_dir \in PreviousSessions
    /\ sleep_left = 0
    /\ pending_uploads = 0
    /\ background_tasks = 0
    /\ response = [endpoint |-> "none"]

SpecService == InitService /\ [][NextService]_vars

\* the service under fair scheduling: time passes, and the periodic task
\* runs when its sleep is over
SpecServiceFair ==
    InitService /\ [][NextService]_vars /\ WF_vars(Tick) /\ WF_vars(PeriodicCleanup)

(* Inputs for the whole pipeline: two numeric columns, one of them with *)
(* gaps, a text column and a date column; every strategy                *)

\* the first numeric column: "0" in every row but the last, "10" there
XColumn(n) == [i \in 1..n |-> IF i = n THEN <<49, 48>> ELSE <<48>>]

\* the text column: "NYC" in odd rows, "LA" in even rows
CityColumn(n) == [i \in 1..n |-> IF i % 2 = 1 THEN <<78, 89, 67>> ELSE <<76, 65>>]

\* the date column: "2024-01-05" in odd rows, "03/04/2024" in even rows
DateColumn(n) ==
    [i \in 1..n |-> IF i % 2 = 1 THEN <<50, 48, 50, 52, 45, 48, 49, 45, 48, 53>>
                    ELSE <<48, 51, 47, 48, 52, 47, 50, 48, 50, 52>>]

\* fields of the second numeric column
GapFields == {<<>>, <<49>>, <<53, 48>>}                        \* "", "1", "50"

FrameFiles ==
    UNION {{File(<<"x", "y", "city", "signup_date">>, n,
                 [c \in {"x", "y", "city", "signup_date"} |->
                    IF c = "x" THEN XColumn(n)
                    ELSE IF c = "y" THEN b
                    ELSE IF c = "city" THEN CityColumn(n)
                    ELSE DateColumn(n)]) :
              b \in [1..n -> GapFields]} :
           n \in 4..MaxFrameRows}

InitFrame ==
    \E im \in {"backend", "cli"}, s \in Strategies, std \in BOOLEAN, f \in FrameFiles :
       Start(im, Config(s, LowZ, LowIqr, std), f)

SpecFrame == InitFrame /\ [][Next]_vars

----------------------------------------------------------------------------
(* Claims *)

\* a stage of the pipeline has run (reading the file is not a stage)
StageExecuted == pc \notin {"start", "drop_empty"}

\* C1: an invocation whose outlier_strategy is none of 'cap', 'remove',
\* 'transform' runs no stage and returns no table.
C1_UnknownStrategyRejected ==
    cfg.outlier_strategy \notin Strategies =>
        ~StageExecuted /\ result.status # "returned"

\* C2: once imputation has run, no cell of any column is missing.
C2_NothingMissingAfterImpute ==
    pc = "outliers" => ~AnyMissing(df)

\* the loop of process_outliers has visited column c
Processed(c) ==
    /\ pc \in {"process_outliers", "standardize"}
    /\ c \in Range(numeric_columns)
    /\ c \notin Range(columns)

\* process_outliers examined column c (it had at least 4 values) and
\* reported on it
Reported(c) == Processed(c) /\ c \in DOMAIN summary

\* row position i of the argument table is reported as an outlier of c
Flagged(c, i) == dataframe.index[i] \in Range(summary[c].outlier_indices)

\* C3 as claimed: under 'cap' every flagged cell ends at the 5th or the
\* 95th percentile of the column before capping, every other cell keeps
\* its value.
C3_CapMovesEveryOutlier ==
    \A c \in Range(numeric_columns) :
        (cfg.outlier_strategy = "cap" /\ Reported(c)) =>
            LET before == dataframe.data[c]
                after  == df.data[c]
            IN \A i \in DOMAIN before :
                  IF Flagged(c, i)
                  THEN after[i] \in {Quantile(before, CapLowerPct),
                                     Quantile(before, CapUpperPct)}
                  ELSE after[i] = before[i]

\* C3 amended: under 'cap' a flagged cell below the 5th percentile ends at
\* the 5th percentile, a flagged cell above the 95th ends at the 95th (both
\* of the column before capping), and every other cell, flagged or not,
\* keeps its value.
C3_CapClipsOutliers ==
    \A c \in Range(numeric_columns) :
        (cfg.outlier_strategy = "cap" /\ Reported(c)) =>
            LET before == dataframe.data[c]
                after  == df.data[c]
                p5     == Quantile(before, CapLowerPct)
                p95    == Quantile(before, CapUpperPct)
            IN \A i \in DOMAIN before :
                  IF Flagged(c, i) /\ CellLess(before[i], p5) THEN after[i] = p5
                  ELSE IF Flagged(c, i) /\ CellLess(p95, before[i]) THEN after[i] = p95
                  ELSE after[i] = before[i]

\* C3 witness: 'cap' has moved a flagged cell to a percentile and has left
\* another flagged cell, lying within the percentiles, as it was.
C3_Witness ==
    \E c \in Range(numeric_columns) :
        /\ cfg.outlier_strategy = "cap" /\ Reported(c)
        /\ \E i, j \in DOMAIN dataframe.data[c] :
              /\ Flagged(c, i) /\ df.data[c][i] # dataframe.data[c][i]
              /\ df.data[c][i] = Quantile(dataframe.data[c], CapLowerPct)
              /\ Flagged(c, j) /\ df.data[c][j] = dataframe.data[c][j]
              /\ CellLess(Quantile(dataframe.data[c], CapLowerPct), dataframe.data[c][j])

\* the labels of the rows of table t that the two tests flag in column c
FlaggedLabels(t, c) ==
    {t.index[i] : i \in {j \in DOMAIN t.index :
        \/ is_outlier_zscore(t.data[c], cfg.z_score_threshold)[j]
        \/ is_outlier_iqr(t.data[c], cfg.iqr_multiplier)[j]}}

\* the union, over the numeric columns with at least 4 values, of the rows
\* flagged in the table process_outliers was given
UnionFlagged ==
    UNION {FlaggedLabels(dataframe, c) :
             c \in {n \in Range(numeric_columns) : Examined(dataframe, n)}}

\* process_outliers has returned under 'remove'
RemoveDone ==
    pc = "standardize" /\ numeric_columns # <<>> /\ cfg.outlier_strategy = "remove"

\* C4: under 'remove' the rows deleted are exactly the rows flagged, in at
\* least one numeric column, in the table as it stood before any deletion.
C4_RemoveDeletesUnion ==
    RemoveDone =>
        /\ NRows(df) = NRows(dataframe) - Cardinality(UnionFlagged)
        /\ df.data = KeepRows(dataframe,
                              [i \in DOMAIN dataframe.index |->
                                  dataframe.index[i] \notin UnionFlagged]).data

\* C5: after 'remove' has deleted rows, the row labels are 0..n-1.
C5_RemoveReindexes ==
    (RemoveDone /\ NRows(df) < NRows(dataframe)) =>
        df.index = [i \in 1..NRows(df) |-> i - 1]

AllPositive(cells) == \A i \in DOMAIN cells : CellLess(Num(0), cells[i])

MaskLabels(t, mask) == {t.index[i] : i \in {j \in DOMAIN t.index : mask[j]}}

\* C7, for one iteration of the loop on a column with at least 4 values:
\* the reported outlier rows are the union of the rows the z-score test
\* flags and the rows the IQR test flags, and the three counts are the
\* sizes of the union and of the two sets.
C7_Iteration ==
    (pc = "process_outliers" /\ columns # <<>> /\ Examined(df, Head(columns))) =>
        LET c == Head(columns)
            z == MaskLabels(df, is_outlier_zscore(df.data[c], cfg.z_score_threshold))
            q == MaskLabels(df, is_outlier_iqr(df.data[c], cfg.iqr_multiplier))
        IN /\ Range(summary'[c].outlier_indices) = z \cup q
           /\ Len(summary'[c].outlier_indices) = Cardinality(z \cup q)
           /\ summary'[c].total_outliers = Cardinality(z \cup q)
           /\ summary'[c].z_score_count = Cardinality(z)
           /\ summary'[c].iqr_count = Cardinality(q)

\* C7: every step of the pipeline keeps the report the union of the two tests.
C7_OutliersAreUnion == [][C7_Iteration]_vars

\* C7 witness: a column has been reported with a row that only the IQR test
\* flags beside a row that the z-score test flags.
C7_Witness ==
    \E c \in Range(numeric_columns) :
        /\ Reported(c)
        /\ summary[c].total_outliers > summary[c].z_score_count
        /\ summary[c].z_score_count > 0

\* the normalized values of column c of table t
NormalizedValues(t, c) == {NormalizeValue(t.data[c][i]) : i \in DOMAIN t.data[c]}

\* C8, for the encoding step of the backend: the keymap of every encoded
\* column has the keys 0..n-1 for its n distinct normalized values, and
\* its values are those values in ascending order.
C8_EncodeStep ==
    (pc = "encode" /\ impl = "backend") =>
        \A c \in Range(RemainingCategorical(df, impl)) :
            LET km == encoding_keymap'[c]
            IN /\ DOMAIN km = 0..(Cardinality(NormalizedValues(df, c)) - 1)
               /\ {km[k] : k \in DOMAIN km} = NormalizedValues(df, c)
               /\ \A j, k \in DOMAIN km : j < k => StrLess(km[j], km[k])

\* C8: every step leaves each keymap the sorted enumeration of the values.
C8_KeymapSortedEnumeration == [][C8_EncodeStep]_vars

\* C8 witness: a column has been encoded whose first row does not hold the
\* smallest of its categories.
C8_Witness ==
    /\ pc = "return" /\ impl = "backend"
    /\ \E c \in DOMAIN encoding_keymap :
          /\ Cardinality(DOMAIN encoding_keymap[c]) >= 2
          /\ df.data[c][1] # Code(0)

\* C9, for the encoding step of the backend: every cell of an encoded
\* column holds a key of the column's keymap, and the keymap gives for it
\* the normalized form of the value the cell held.
C9_EncodeStep ==
    (pc = "encode" /\ impl = "backend") =>
        \A c \in Range(RemainingCategorical(df, impl)) :
            \A i \in DOMAIN df.data[c] :
                LET cell == df'.data[c][i]
                IN /\ cell[1] = "code"
                   /\ cell[2] \in DOMAIN encoding_keymap'[c]
                   /\ encoding_keymap'[c][cell[2]] = NormalizeValue(df.data[c][i])

\* C9: every step encodes totally and invertibly.
C9_EncodingTotalInvertible == [][C9_EncodeStep]_vars

\* C9 witness: a column of several categories has been encoded, one of
\* them a replaced boolean synonym.
C9_Witness ==
    /\ pc = "return" /\ impl = "backend"
    /\ \E c \in DOMAIN encoding_keymap :
          /\ Cardinality(DOMAIN encoding_keymap[c]) >= 2
          /\ \E i \in DOMAIN df.data[c] : encoding_keymap[c][df.data[c][i][2]] = s_True

\* the column of strings the keymap km gives for a column of codes
Decoded(codes, km) == [i \in DOMAIN codes |-> Str(km[codes[i][2]])]

\* C10: decoding an encoded column through its keymap and encoding the
\* result gives the same codes and the same keymap.
C10_RoundTrip ==
    (pc = "return" /\ impl = "backend") =>
        \A c \in DOMAIN encoding_keymap :
            LET again == EncodeColumn(Decoded(df.data[c], encoding_keymap[c]))
            IN /\ again.codes = df.data[c]
               /\ again.keymap = encoding_keymap[c]

\* C10 witness: an encoded column of three categories, "False" among them.
C10_Witness ==
    /\ pc = "return" /\ impl = "backend"
    /\ \E c \in DOMAIN encoding_keymap :
          /\ Cardinality(DOMAIN encoding_keymap[c]) >= 3
          /\ \E k \in DOMAIN encoding_keymap[c] : encoding_keymap[c][k] = s_False

\* the tokens the claim calls truthy and falsy: TRUE, T, YES, Y, 1 and
\* FALSE, F, NO, N, 0
TruthyTokens == {<<84, 82, 85, 69>>, <<84>>, <<89, 69, 83>>, <<89>>, <<49>>}
FalsyTokens  == {<<70, 65, 76, 83, 69>>, <<70>>, <<78, 79>>, <<78>>, <<48>>}

\* the value of a cell, trimmed and with case ignored
Token(c) == Upper(Strip(AsStr(c)))

\* every value of the column is a boolean synonym
BooleanLike(cells) ==
    \A i \in DOMAIN cells : Token(cells[i]) \in TruthyTokens \cup FalsyTokens

\* C11, for the encoding step of the backend: a column whose every value,
\* trimmed and with case ignored, is one of TRUE/T/YES/Y/1 or
\* FALSE/F/NO/N/0 gets at most 2 categories, each "False" or "True"; every
\* truthy value gets the code of "True" and every falsy value the code of
\* "False", so the two kinds of value never share a code.
C11_EncodeStep ==
    (pc = "encode" /\ impl = "backend") =>
        \A c \in Range(RemainingCategorical(df, impl)) :
            BooleanLike(df.data[c]) =>
                LET km == encoding_keymap'[c]
                IN /\ Cardinality(DOMAIN km) <= 2
                   /\ {km[k] : k \in DOMAIN km} \subseteq {s_False, s_True}
                   /\ \A i \in DOMAIN df.data[c] :
                         km[df'.data[c][i][2]] =
                            IF Token(df.data[c][i]) \in TruthyTokens
                            THEN s_True ELSE s_False
                   /\ \A i, j \in DOMAIN df.data[c] :
                         (df'.data[c][i] = df'.data[c][j]) <=>
                            ((Token(df.data[c][i]) \in TruthyTokens) <=>
                             (Token(df.data[c][j]) \in TruthyTokens))

\* C11: every step collapses the boolean synonyms of such a column.
C11_BooleanSynonymsCollapse == [][C11_EncodeStep]_vars

\* C11 witness: a column read from three different synonyms, in mixed
\* case, has been encoded with exactly the categories "False" and "True".
C11_Witness ==
    /\ pc = "return" /\ impl = "backend"
    /\ "city" \in DOMAIN encoding_keymap
    /\ Cardinality(Range(file.text["city"])) = 3
    /\ \A i \in DOMAIN file.text["city"] :
          Upper(Strip(file.text["city"][i])) \in TruthyTokens \cup FalsyTokens
    /\ encoding_keymap["city"] = Keymap(<<s_False, s_True>>)

\* the order of the explicit formats as the claim gives it: YYYY-MM-DD,
\* YYYY/MM/DD, MM/DD/YYYY, DD/MM/YYYY, DD-MM-YYYY, MM-DD-YYYY
ClaimedFormats == << <<45, "Ymd">>, <<47, "Ymd">>, <<47, "mdY">>,
                     <<47, "dmY">>, <<45, "dmY">>, <<45, "mdY">> >>

\* the claimed formats that accept the text s, by position
Accepting(s) ==
    {k \in DOMAIN ClaimedFormats : ParseWithFormat(s, ClaimedFormats[k]) # NaT}

\* the date the claim gives for the text s
ClaimedDate(s) ==
    IF Accepting(s) # {}
    THEN ParseWithFormat(s, ClaimedFormats[
             CHOOSE k \in Accepting(s) : \A j \in Accepting(s) : k <= j])
    ELSE IF AutoDetect(s, TRUE) # NaT THEN AutoDetect(s, TRUE)
    ELSE AutoDetect(s, FALSE)

\* C12, for the step that parses the date columns: every value gets the
\* date of the first explicit format, in the claimed order, that accepts
\* it; the day-first fallback is used only when no explicit format accepts
\* it and the month-first fallback only when that fails too; a value that
\* both MM/DD/YYYY and DD/MM/YYYY accept is read month-first.
C12_ParseStep ==
    pc = "encode" =>
        \A c \in Range(DateColumns(df, impl)) :
            \A i \in DOMAIN df.data[c] :
                LET s == AsStr(df.data[c][i])
                IN /\ df'.data[c][i] = ClaimedDate(s)
                   /\ ({3, 4} \subseteq Accepting(s)) =>
                         df'.data[c][i] = ParseWithFormat(s, <<47, "mdY">>)

\* C12: every step parses dates by the first accepting format.
C12_FirstFormatWins == [][C12_ParseStep]_vars

\* C12 witness: the date column has been parsed, and "03/04/2024", which
\* the month-first and the day-first slash formats both accept, came out
\* as the 4th of March.
C12_Witness ==
    /\ pc = "return"
    /\ HasCol(df, "signup_date")
    /\ \E i \in DOMAIN df.data["signup_date"] :
          /\ file.text["signup_date"][i] = <<48, 51, 47, 48, 52, 47, 50, 48, 50, 52>>
          /\ ParseWithFormat(file.text["signup_date"][i], <<47, "dmY">>) # NaT
          /\ df.data["signup_date"][i] = Date(2024, 3, 4)

\* the field is read as missing
MissingField(s) == SkipSpaces(s) \in NaValues

\* a field of an allowlisted column that is there and is no number
BadNumber(c, s) ==
    /\ LowerName(c) \in NumericNames
    /\ ~MissingField(s)
    /\ ~IsNumber(Strip(SkipSpaces(s)))

\* a field of a date column that is there and that no explicit format and
\* neither fallback parses
BadDate(c, s) ==
    /\ HasDateWord(c)
    /\ ~MissingField(s)
    /\ FirstFormat(SkipSpaces(s), 1) = NaT
    /\ AutoDetect(SkipSpaces(s), TRUE) = NaT
    /\ AutoDetect(SkipSpaces(s), FALSE) = NaT

\* row i of column c of the file f holds a bad cell
Bad(f, c, i) == BadNumber(c, f.text[c][i]) \/ BadDate(c, f.text[c][i])

\* the file f with every bad cell absent: its field empty
Repaired(f) ==
    [f EXCEPT !.text = [c \in DOMAIN f.text |->
                          [i \in DOMAIN f.text[c] |->
                             IF Bad(f, c, i) THEN <<>> ELSE f.text[c][i]]]]

\* outlier handling has changed nothing in this invocation
Quiet == \A c \in DOMAIN summary : summary[c].total_outliers = 0

\* C13, the coercion step: a bad cell of an allowlisted column becomes missing
C13_CoerceStep ==
    pc = "coerce" =>
        \A c \in Range(df.cols) : \A i \in DOMAIN df.data[c] :
            BadNumber(c, file.text[c][i]) => IsNa(df'.data[c][i])

\* C13, the parsing step: a bad value of a date column becomes the null date
C13_ParseStep ==
    (pc = "encode" /\ NRows(df) = file.rows) =>
        \A c \in Range(DateColumns(df, impl)) : \A i \in DOMAIN df.data[c] :
            BadDate(c, file.text[c][i]) => df'.data[c][i] = NaT

\* C13, continuation: the invocation never fails, no stage hands back an
\* error, and the invocation ends by returning a table with as many rows
\* as the file has
C13_NeverFatal ==
    /\ pc # "failed"
    /\ result.status \in {"none", "returned"}
    /\ pc = "done" =>
          /\ result.status = "returned"
          /\ Quiet => NRows(result.table) = file.rows

\* C13 as claimed, the other cells: every cell that is not bad comes out
\* as it does when the bad cells are absent from the file.
C13_OthersAsIfAbsent ==
    (pc = "done" /\ Quiet) =>
        LET t   == result.table
            exp == CleanedQuietly(impl, cfg, Repaired(file))
        IN \A c \in Range(t.cols) : \A i \in DOMAIN t.data[c] :
              ~Bad(file, c, i) =>
                  c \in Range(exp.cols) /\ t.data[c][i] = exp.data[c][i]

\* C13 as claimed: bad cells become missing or the null date, the
\* invocation goes on through every stage and returns, and every other
\* cell is processed as if the bad cells were absent.
C13_DegradationLeavesOthersAlone ==
    /\ [][C13_CoerceStep /\ C13_ParseStep]_vars
    /\ [](C13_NeverFatal /\ C13_OthersAsIfAbsent)

\* column c of the file f holds a bad cell
HasBad(f, c) == \E i \in DOMAIN f.text[c] : Bad(f, c, i)

\* C13 amended, the other cells: every cell of a column without bad cells,
\* and every cell that holds a value, comes out as it does when the bad
\* cells are absent, and no such column is lost.  A missing cell beside a
\* bad cell is filled from its column as the column stands: in a date
\* column with the most frequent text, unparseable texts counted (and is
\* then parsed); in an allowlisted column with the median of the numbers,
\* and it stays missing when the column has no number.
C13_OthersAmended ==
    (pc = "done" /\ Quiet) =>
        LET t   == result.table
            exp == CleanedQuietly(impl, cfg, Repaired(file))
        IN /\ Range(exp.cols) \subseteq Range(t.cols)
           /\ \A c \in Range(t.cols) : \A i \in DOMAIN t.data[c] :
                 ~Bad(file, c, i) =>
                    IF ~MissingField(file.text[c][i]) \/ ~HasBad(file, c)
                    THEN c \in Range(exp.cols) /\ t.data[c][i] = exp.data[c][i]
                    ELSE IF HasDateWord(c)
                    THEN t.data[c][i] =
                            try_parse_date(FillValue(ReadColumn(file.text[c]).cells))
                    ELSE IF c \in Range(exp.cols)
                    THEN t.data[c][i] = exp.data[c][i]
                    ELSE IsNa(t.data[c][i])

\* C13 amended: bad cells become missing or the null date, the invocation
\* goes on through every stage and returns, and the other cells are
\* processed as above.
C13_DegradationNotFatal ==
    /\ [][C13_CoerceStep /\ C13_ParseStep]_vars
    /\ [](C13_NeverFatal /\ C13_OthersAmended)

\* C13 witness: an invocation has returned a table for a file with a bad
\* number beside a number and a bad date beside a date; the bad date came
\* out as the null date.
C13_Witness ==
    /\ pc = "done" /\ result.status = "returned"
    /\ \E i, j \in 1..file.rows :
          /\ i # j
          /\ BadNumber("Age", file.text["Age"][i])
          /\ BadDate("signup_date", file.text["signup_date"][i])
          /\ ~Bad(file, "Age", j) /\ ~MissingField(file.text["Age"][j])
          /\ ~Bad(file, "signup_date", j) /\ ~MissingField(file.text["signup_date"][j])
          /\ result.table.data["signup_date"][i] = NaT
          /\ result.table.data["signup_date"][j] # NaT

\* the columns of the raw table whose every cell is missing
RawEmpty == EmptyCols(ReadCsv(file))

\* C14: once a table is returned, every column that is entirely missing in
\* the raw table is absent from it, every other raw column is present, and
\* the summary handed to the caller lists the name of every dropped column.
C14_EmptyColumnsDroppedAndListed ==
    (pc = "done" /\ result.status = "returned") =>
        /\ \A c \in RawEmpty : ~HasCol(result.table, c)
        /\ \A c \in Range(file.cols) \ RawEmpty : HasCol(result.table, c)
        /\ \A c \in RawEmpty :
              /\ "dropped_columns" \in DOMAIN result.summary
              /\ c \in Range(result.summary.dropped_columns)

\* the median of a sequence of values: the middle one in ascending order,
\* or the mean of the two middle ones; NaN when there is none
MedianOf(values) ==
    LET v == SortSeq(values, LAMBDA a, b : a < b)
        n == Len(v)
    IN IF n = 0 THEN NaN
       ELSE IF n % 2 = 1 THEN Num(v[(n + 1) \div 2])
       ELSE Num((v[n \div 2] + v[n \div 2 + 1]) \div 2)

\* C15, for the imputation step: in every numeric column a cell that was
\* missing holds the median of the values the column had, and a cell that
\* was not missing keeps its value.
C15_ImputeStep ==
    pc = "impute" =>
        \A c \in Range(df.cols) :
            IsNumericDtype(df.dtype[c]) =>
                \A i \in DOMAIN df.data[c] :
                    IF IsNa(df.data[c][i])
                    THEN df'.data[c][i] = MedianOf(Values(df.data[c]))
                    ELSE df'.data[c][i] = df.data[c][i]

\* C15: every step fills the gaps of numeric columns with the median.
C15_MedianFill == [][C15_ImputeStep]_vars

\* C15 witness: imputation has filled an empty cell of a column holding 1
\* and 10 beside other numbers with a value strictly between them.
C15_Witness ==
    /\ pc = "outliers"
    /\ HasCol(df, "Score")
    /\ \E i, j, k \in DOMAIN df.data["Score"] :
          /\ MissingField(file.text["Score"][i])
          /\ df.data["Score"][j] = Num(Scale * 1)
          /\ df.data["Score"][k] = Num(Scale * 10)
          /\ CellLess(df.data["Score"][j], df.data["Score"][i])
          /\ CellLess(df.data["Score"][i], df.data["Score"][k])

\* row position i of the table given to process_outliers is still in the
\* table (the backend deletes, and relabels, only as it returns)
Survives(i) ==
    IF impl = "backend" /\ cfg.outlier_strategy = "remove" /\ pc = "standardize"
    THEN dataframe.index[i] \notin all_outlier_indices
    ELSE dataframe.index[i] \in Range(df.index)

\* the labels of the rows deleted so far
DeletedLabels == {dataframe.index[i] : i \in {j \in DOMAIN dataframe.index : ~Survives(j)}}

\* the labels the report gives as outliers of the columns other than c
ReportedElsewhere(c) ==
    UNION {Range(summary[d].outlier_indices) :
             d \in DOMAIN summary \ {c, "removal_summary"}}

\* the numeric columns with fewer than 4 values that the loop has visited
SmallColumns ==
    {c \in Range(numeric_columns) : Processed(c) /\ Count(dataframe.data[c]) < 4}

\* C16, the frame: a visited numeric column with fewer than 4 values has
\* its values unchanged in every row still in the table, and every deleted
\* row is reported as an outlier of another column.
C16_SmallColumnsUntouched ==
    \A c \in SmallColumns :
        /\ df.data[c] = SelectPos(dataframe.data[c],
                                  [i \in DOMAIN dataframe.index |-> Survives(i)], 1)
        /\ DeletedLabels \subseteq ReportedElsewhere(c)

\* the number of outliers the report records for column c, as
\* clean_csv_data adds the report up: nothing for a column without entry
RecordedCount(c) == IF c \in DOMAIN summary THEN summary[c].total_outliers ELSE 0

\* the rows the report records as outliers of column c
RecordedRows(c) ==
    IF c \in DOMAIN summary THEN Range(summary[c].outlier_indices) ELSE {}

\* C16: under every strategy a visited numeric column with fewer than 4
\* values is unchanged, contributes no row to the rows deleted, and the
\* outlier report records zero outliers, and no outlier row, for it.
C16_SmallColumnsSkipped ==
    /\ C16_SmallColumnsUntouched
    /\ \A c \in SmallColumns : RecordedCount(c) = 0 /\ RecordedRows(c) = {}

\* C16 witness: 'remove' has deleted a row for an outlier of one column
\* while another numeric column, with fewer than 4 values, was visited.
C16_Witness ==
    /\ pc = "standardize" /\ cfg.outlier_strategy = "remove"
    /\ SmallColumns # {}
    /\ DeletedLabels # {}
    /\ NRows(df) < NRows(dataframe)

\* both invocations have ended
BothDone == pc = "done" /\ other.pc = "done"

\* C17: when two invocations on different files have both ended, whatever
\* the interleaving, each one's returned table and each one's saved file
\* are those of that invocation run alone, and the two invocations wrote
\* no common file.
C17_InvocationsIndependent ==
    BothDone =>
        /\ result.table = CleanedQuietly(impl, cfg, file)
        /\ other.table = CleanedQuietly(impl, other.cfg, other.file)
        /\ OutputPath(impl, FileId) # OutputPath(impl, other.file_id)
        /\ disk[OutputPath(impl, FileId)] = ToCsv(CleanedQuietly(impl, cfg, file))
        /\ disk[OutputPath(impl, other.file_id)] =
              ToCsv(CleanedQuietly(impl, other.cfg, other.file))

\* C18, for the steps from standardization on: when standardize is false
\* the standardization step changes no cell of the table, and no later
\* step changes a cell of a numeric column, so the table returned holds
\* in every numeric column the values outlier resolution left.
C18_StepsFromStandardize ==
    (pc \in {"standardize", "encode", "return"} /\ ~cfg.standardize) =>
        /\ pc = "standardize" => df' = df
        /\ \A c \in Range(numeric_columns) : df'.data[c] = df.data[c]
        /\ pc = "return" =>
              \A c \in Range(numeric_columns) : result'.table.data[c] = df.data[c]

\* C18: every step keeps the numeric columns when standardize is false.
C18_NoStandardizeKeepsValues == [][C18_StepsFromStandardize]_vars

\* C18 witness: with standardize false a table has been returned in which
\* 'cap' has moved an outlier and another cell holds the number read from
\* the file.
C18_Witness ==
    /\ pc = "done" /\ ~cfg.standardize /\ cfg.outlier_strategy = "cap"
    /\ "x" \in Range(numeric_columns)
    /\ \E i, j \in DOMAIN result.table.data["x"] :
          /\ result.table.data["x"][i] = Num(Scale * NumberValue(file.text["x"][i]))
          /\ result.table.data["x"][j] # Num(Scale * NumberValue(file.text["x"][j]))

\* C19, for the steps of process_outliers under 'cap' and 'transform': no
\* step deletes, adds or reorders rows or columns; an iteration of the
\* loop changes no cell outside the column it is at; the end of the loop
\* changes nothing.
C19_ResolverStep ==
    (pc = "process_outliers" /\ cfg.outlier_strategy \in {"cap", "transform"}) =>
        /\ df'.index = df.index
        /\ df'.cols = df.cols
        /\ \A c \in Range(df.cols) :
              /\ Len(df'.data[c]) = Len(df.data[c])
              /\ (columns = <<>> \/ c # Head(columns)) => df'.data[c] = df.data[c]

\* C19, at the end: under 'cap' and 'transform' the table leaves outlier
\* handling with the rows, in the order, it came with.
C19_SameRows ==
    (pc = "standardize" /\ numeric_columns # <<>>
        /\ cfg.outlier_strategy \in {"cap", "transform"}) =>
        /\ NRows(df) = NRows(dataframe)
        /\ df.index = dataframe.index

\* C19: 'cap' and 'transform' keep the rows and touch one column at a time.
C19_CapTransformLocal == [][C19_ResolverStep]_vars /\ []C19_SameRows

\* C19 witness: 'cap' has changed a cell of each of two numeric columns of
\* a table that also has a text column, and the table has the rows it had.
C19_Witness ==
    /\ pc = "standardize" /\ cfg.outlier_strategy = "cap"
    /\ HasCol(df, "city")
    /\ {"x", "y"} \subseteq Range(numeric_columns)
    /\ df.data["x"] # dataframe.data["x"]
    /\ df.data["y"] # dataframe.data["y"]
    /\ df.data["x"] # df.data["y"]
    /\ df.data["city"] = dataframe.data["city"]

\* the place of a position of the invocation in the order of the stages:
\* read, empty-column drop, coercion, imputation, outlier handling (its
\* entry and its loop), standardization, date parsing and encoding, return
StageRank(p) ==
    CASE p = "start"            -> 0
      [] p = "drop_empty"       -> 1
      [] p = "coerce"           -> 2
      [] p = "impute"           -> 3
      [] p = "outliers"         -> 4
      [] p = "process_outliers" -> 5
      [] p = "standardize"      -> 6
      [] p = "encode"           -> 7
      [] p = "return"           -> 8
      [] OTHER                  -> 9

\* C20, the order: every step either stays in the loop of process_outliers,
\* going on to its next column, or moves to a later stage; so no stage runs
\* twice and none runs after a later one.
C20_OrderStep ==
    \/ pc = "process_outliers" /\ pc' = pc /\ Len(columns') < Len(columns)
    \/ StageRank(pc') > StageRank(pc)

\* C20, stages are not dropped: a step leaves a stage for the next one,
\* except that outlier handling is passed over when no column is numeric
\* and that standardization of a table without rows ends the invocation
\* without a table.
C20_NextStage ==
    pc' # pc =>
        \/ StageRank(pc') = StageRank(pc) + 1
        \/ pc = "outliers" /\ pc' = "standardize" /\ NumericColumns(df) = <<>>
        \/ pc = "standardize" /\ pc' = "failed" /\ result'.status # "returned"

\* the table imputation makes of the file
ImputedFile == 
    LET read == ReadCsv(file)
    IN ImputedTable(Coerced(IF EmptyCols(read) # {}
                            THEN DropCols(read, EmptyCols(read)) ELSE read))

\* C20, detection on imputed values: the table process_outliers is given
\* is the imputed table.
C20_DetectOnImputed ==
    pc = "process_outliers" => dataframe = ImputedFile

\* C20, standardization on the values outlier resolution left: each
\* numeric cell is scaled within its column as that column stands when
\* outlier handling has ended.
C20_StandardizeStep ==
    (pc = "standardize" /\ pc' = "encode" /\ ShouldStandardize(numeric_columns, cfg)) =>
        \A c \in Range(numeric_columns) : \A i \in DOMAIN df.data[c] :
            df'.data[c][i] = Scaled(df.data[c][i], df.data[c])

\* the text columns of a table
TextColumns(t) == {c \in Range(t.cols) : t.dtype[c] = "object"}

\* C20, the last stage: the columns it parses as dates and the columns it
\* encodes are disjoint and between them hold every text column.
C20_EncodeStep ==
    pc = "encode" =>
        LET parsed  == {c \in Range(df.cols) :
                          df'.dtype[c] = "datetime64" /\ df.dtype[c] # "datetime64"}
            encoded == {c \in Range(df.cols) :
                          df'.dtype[c] = "int8" /\ df.dtype[c] # "int8"}
        IN /\ parsed \cap encoded = {}
           /\ TextColumns(df) \subseteq parsed \cup encoded
           /\ \A c \in parsed : df'.data[c] = parse_datetime_column(df.data[c])
           /\ \A c \in encoded : \A i \in DOMAIN df.data[c] : df'.data[c][i][1] = "code"

\* C20: the stages run in the fixed order, each at most once; outliers are
\* detected on imputed values, standardization works on what outlier
\* resolution left, and date parsing and encoding split the text columns.
C20_FixedStageOrder ==
    /\ [][C20_OrderStep /\ C20_NextStage /\ C20_StandardizeStep /\ C20_EncodeStep]_vars
    /\ []C20_DetectOnImputed

\* C20 witness: a table has been returned after imputation filled a gap,
\* 'cap' moved an outlier, standardization scaled the capped column, the
\* date column was parsed and the text column encoded.
C20_Witness ==
    /\ pc = "done" /\ result.status = "returned"
    /\ cfg.outlier_strategy = "cap" /\ cfg.standardize
    /\ \E i \in 1..file.rows : MissingField(file.text["y"][i])
    /\ HasCol(dataframe, "y")
    /\ \E i \in DOMAIN dataframe.data["y"] :
          result.table.data["y"][i][1] = "scaled"
             /\ result.table.data["y"][i][2][1] # dataframe.data["y"][i]
    /\ result.table.dtype["signup_date"] = "datetime64"
    /\ result.table.dtype["city"] = "int8"

\* C21, the input: at every point of an invocation, ended or not, and
\* however it ends, the input file holds what it held at the call.
C21_InputUntouched == disk[file_path] = file

\* C21, no memory: the table an invocation returns is the one the stages
\* make of the input file and the configuration, whatever an earlier
\* invocation left behind.
C21_NoMemory ==
    pc = "done" => result.table = CleanedQuietly(impl, cfg, file)

\* C21: an invocation leaves its input file as it was and its result owes
\* nothing to an earlier invocation.
C21_SideEffectFree == C21_InputUntouched /\ C21_NoMemory

\* the files of the temp directory kept for a file_id
ArtifactsOf(dir, file_id) == {n \in DOMAIN dir : n[1] = file_id}

\* C22, clean: a clean request for a file_id without a stored upload is
\* answered 404 'File not found', writes no file, and leaves the temp
\* directory as the sweep of expired files leaves it.
C22_CleanStep ==
    \A file_id \in FileIds :
        (Clean(file_id) /\ Name(file_id, ".csv") \notin DOMAIN temp_dir) =>
            /\ response'.endpoint = "clean"
            /\ response'.status_code = 404
            /\ response'.detail = <<"File not found">>
            /\ temp_dir' = cleanup_old_files(temp_dir)
            /\ DOMAIN temp_dir' \subseteq DOMAIN temp_dir

\* C22, download: a download request for an id without a stored file is
\* answered 404 'File not found' and leaves the temp directory as it was.
C22_DownloadStep ==
    \A download_id \in DownloadIds :
        (Download(download_id) /\ DownloadName(download_id) \notin DOMAIN temp_dir) =>
            /\ response'.endpoint = "download"
            /\ response'.status_code = 404
            /\ response'.detail = <<"File not found">>
            /\ temp_dir' = temp_dir

\* C22: a clean or download request whose file_id has no stored file is
\* answered with status 404 'File not found', creates no artifact, and
\* leaves the temp directory as it was apart from expiry cleanup.
C22_MissingFileIs404 == [][C22_CleanStep /\ C22_DownloadStep]_vars

\* an answer that says the file was not found, under whatever status
NotFoundAnswer(r) ==
    r.status_code # 200 /\ r.detail[Len(r.detail)] = "File not found"

\* C23, deletion: whatever the step (a request, a sweep, the passing of
\* time), a file that is gone after it was older than 15 minutes before it.
C23_DeletionStep ==
    \A n \in DOMAIN temp_dir \ DOMAIN temp_dir' : temp_dir[n] > FILE_EXPIRATION_TIME

\* C23, requests within the window: a clean request for an upload, and a
\* download request for a file, at most 15 minutes old is not answered
\* 'File not found'.
C23_FoundStep ==
    /\ \A file_id \in FileIds :
          (/\ Clean(file_id)
           /\ Name(file_id, ".csv") \in DOMAIN temp_dir
           /\ temp_dir[Name(file_id, ".csv")] <= FILE_EXPIRATION_TIME)
             => response'.endpoint = "clean" /\ ~NotFoundAnswer(response')
    /\ \A download_id \in DownloadIds :
          (/\ Download(download_id)
           /\ DownloadName(download_id) \in DOMAIN temp_dir
           /\ temp_dir[DownloadName(download_id)] <= FILE_EXPIRATION_TIME)
             => response'.endpoint = "download" /\ response'.status_code = 200

\* C23: across every interleaving of uploads, clean requests, cleanups and
\* sweeps, only files older than 15 minutes are deleted, so a file at most
\* 15 minutes old is still found by a clean or download request.
C23_YoungFilesKept == [][C23_DeletionStep /\ C23_FoundStep]_vars

\* C23 witness: the service has started, the periodic sweep has just run
\* over an upload exactly 15 minutes old and left it there, and a clean
\* request made at that age has found it and saved the cleaned table.
C23_Witness ==
    /\ started
    /\ sleep_left = SleepSeconds
    /\ Name("a", ".csv") \in DOMAIN temp_dir
    /\ temp_dir[Name("a", ".csv")] = FILE_EXPIRATION_TIME
    /\ Name("a", "_cleaned.csv") \in DOMAIN temp_dir
    /\ temp_dir[Name("a", "_cleaned.csv")] = 0
    /\ response.endpoint = "clean"
    /\ response.status_code = 200

\* the names a file of the temp directory may have
Names == {Name(file_id, suffix) : file_id \in FileIds, suffix \in Suffixes}

\* C24: once the service has started, a file older than 15 minutes is
\* eventually deleted, whether or not a request ever arrives, when time
\* passes and the periodic task is scheduled fairly.
C24_ExpiredEventuallyDeleted ==
    \A n \in Names :
        (started /\ n \in DOMAIN temp_dir /\ temp_dir[n] > FILE_EXPIRATION_TIME)
            ~> (n \notin DOMAIN temp_dir)

\* C24 witness: no request has arrived since startup, the periodic task
\* has swept and gone to sleep, and of the upload and the cleaned table a
\* previous session left, the upload, the older of the two, is gone while
\* the cleaned table is still there.
C24_Witness ==
    /\ started
    /\ response.endpoint = "none"
    /\ pending_uploads = 0
    /\ sleep_left = SleepSeconds
    /\ Name("a", ".csv") \notin DOMAIN temp_dir
    /\ Name("a", "_cleaned.csv") \in DOMAIN temp_dir
    /\ temp_dir[Name("a", "_cleaned.csv")] <= FILE_EXPIRATION_TIME

====
